---------------------------- MODULE Spec2Model ----------------------------
(***************************************************************************)
(* NanoServe: the thread-safe task queue, the worker pool, the accept      *)
(* loop of main and the per-connection pipeline, as a state machine.       *)
(*                                                                         *)
(* Every critical section of the queue (the code between                   *)
(* pthread_mutex_lock and the next pthread_mutex_unlock or                 *)
(* pthread_cond_wait) is one atomic step.  A thread inside                 *)
(* pthread_cond_wait is in q_waiting while it is blocked on the condition  *)
(* variable; once signalled it has left q_waiting and its next step is     *)
(* the critical section that follows the wait.                             *)
(*                                                                         *)
(* A descriptor is modelled by the identity of the accepted connection     *)
(* (1, 2, ...): descriptor numbers are not reused.                         *)
(***************************************************************************)
EXTENDS Integers, Sequences, FiniteSets, TLC

\* ------------------------------------------------------------------ bounds
MaxConns     == 2   \* connections the accept loop / the producers accept
MaxQueueSize == 1   \* largest max_size task_queue_init is called with
MaxSignals   == 1   \* SIGINT / SIGTERM deliveries
MaxShutdownCalls == 2   \* listener_shutdown calls, from the handler or elsewhere

\* ----------------------------------------------------------------- threads
Workers   == {"w1", "w2"}          \* worker_thread instances of the pool
Producers == {"p1", "p2"}          \* queue-level callers of task_queue_enqueue
Consumers == {"c1", "c2"}          \* queue-level callers of task_queue_dequeue
Main      == "main"
Threads   == {Main} \cup Workers \cup Producers \cup Consumers
Enqueuers == {Main} \cup Producers
Dequeuers == Workers \cup Consumers

Fds == 1..MaxConns
NoFd == 0

VARIABLES
    \* task_queue_t
    q_list,        \* the linked list head .. tail, as the sequence of client_fd (SpecN: as its nodes)
    q_count,       \* queue->count
    q_max,         \* queue->max_size
    q_shutdown,    \* queue->shutdown
    q_waiting,     \* threads blocked in pthread_cond_wait(&queue->cond)
    \* per thread
    pc,            \* position of each thread
    fdv,           \* the thread's local client_fd
    ret,           \* return value of the thread's last queue call
    waited,        \* the thread's current (or just failed) queue call has been in pthread_cond_wait
    \* thread_pool_t
    pool_shutdown, \* pool->shutdown
    synced,        \* worker has locked the queue mutex after task_queue_shutdown
    threads,       \* pool->threads[i] != 0: the slot holds a created thread
    joins,         \* pthread_join calls of thread_pool_shutdown: tried, ok
    \* main, listener, signal handler
    g_running,     \* g_running
    pipe_bytes,    \* bytes in listener->shutdown_pipe
    sig_pc,        \* position of a running signal_handler
    signals,       \* listener_shutdown calls so far (signals delivered, direct calls)
    next_fd,       \* next connection to be accepted
    \* connections
    conn,          \* per connection: descriptor state, request, response
    \* history
    enq_log,       \* descriptors appended by task_queue_enqueue, in order
    deq_log,       \* descriptors returned by task_queue_dequeue, in order
    dropped,       \* descriptors freed unprocessed by task_queue_destroy
    at_shutdown    \* the list and the number of dequeues when shutdown was set

qvars    == <<q_list, q_count, q_max, q_shutdown, q_waiting>>
tvars    == <<pc, fdv, ret, waited>>
poolvars == <<pool_shutdown, synced, threads, joins>>
mainvars == <<g_running, pipe_bytes, sig_pc, signals>>
logvars  == <<enq_log, deq_log, dropped, at_shutdown>>
vars == <<q_list, q_count, q_max, q_shutdown, q_waiting, pc, fdv, ret, waited,
          pool_shutdown, synced, threads, joins, g_running, pipe_bytes, sig_pc, signals,
          next_fd, conn, enq_log, deq_log, dropped, at_shutdown>>


\* no pthread_join call has been made
NoJoins == [tried |-> {}, ok |-> {}]

\* ------------------------------------------------------------ connections
NoReq  == [parse |-> 0, method |-> "NONE", uri |-> "", has_key |-> FALSE,
           key |-> "", body_length |-> 0]
NoResp == [status |-> 0, body |-> <<>>]

\* a NULL pointer
NULL == "NULL"

\* a NULL pointer to bytes: no buffer is ever empty
NoBytes == <<>>

\* memset(request, 0, ...) followed by the defaults of http_request_init
NewRequest ==
    [method |-> 0, uri |-> <<>>, version |-> 0,
     headers |-> <<>>,          \* headers[0 .. header_count - 1]
     header_count |-> 0,
     content_length |-> 0, has_idempotency_key |-> FALSE,
     idempotency_key |-> <<>>, body_length |-> 0]

\* memset(&response, 0, sizeof(response))
ZeroResponse ==
    [status_code |-> 0, status_message |-> NULL, headers |-> <<>>,
     body |-> NoBytes, body_length |-> 0]

\* char buffer[CONN_BUFFER_SIZE] before connection_read has filled it
NoBuffer == [terminated |-> FALSE, line |-> <<>>, headers |-> <<>>]

\* the locals of one connection_handle call and what it put on the socket
NoHandle ==
    [buffer               |-> NoBuffer,        \* what connection_read stored
     bytes_read           |-> 0,             \* what connection_read returned
     errno                |-> "none",        \* errno of the last failed recv/send
     request              |-> NewRequest,
     response             |-> ZeroResponse,
     response_initialized |-> 0,
     serialized           |-> NoBytes,
     serialized_length    |-> 0,
     total_sent           |-> 0,
     wire                 |-> <<>>,          \* bytes sent on the socket so far
     line_rc              |-> 1,             \* parse_request_line result (1: not called)
     headers_rc           |-> 1,             \* parse_headers result (1: not called)
     body_calls           |-> 0,             \* parse_request_body calls
     alloc_failed         |-> FALSE,         \* an allocation of this run failed
     parsed               |-> FALSE]         \* Steps 2-5 passed

NewConn == [state        |-> "unborn",   \* unborn, open, closed
            h            |-> <<>>,       \* connection_handle locals, where followed
            opener       |-> "none",     \* the thread that obtained the descriptor
            req          |-> NoReq,      \* the request the client sends
            resp         |-> NoResp,     \* the response handed to the send loop
            closes_acc   |-> 0,          \* close(client_fd) calls by the accept loop
            closes_wrk   |-> 0,          \* close(client_fd) calls by worker threads
            handles      |-> 0,          \* connection_handle calls on it
            finished     |-> FALSE,      \* connection_handle has returned
            result       |-> 0,          \* the value connection_handle returned
            handler_runs |-> 0,          \* executions of Step 7 for it
            done_before  |-> {}]         \* connections finished when its handling began

\* close(client_fd) in the accept loop of main
CloseByAcceptor(fd) ==
    conn' = [conn EXCEPT ![fd].state = "closed", ![fd].closes_acc = @ + 1]

\* close(client_fd) in worker_thread
CloseByWorker(fd) ==
    conn' = [conn EXCEPT ![fd].state = "closed", ![fd].closes_wrk = @ + 1]

\* ------------------------------------------------------------- task queue
\* pthread_cond_signal: wakes one blocked thread, if there is one
WakeOne(waiting) ==
    IF waiting = {} THEN {{}} ELSE {waiting \ {w} : w \in waiting}

\* pthread_cond_broadcast in task_queue_shutdown, as a single signal
ShutdownWakeSignal(waiting) == WakeOne(waiting)
\* pthread_cond_broadcast in task_queue_shutdown: nobody stays blocked
ShutdownWake(waiting) == {{}}

\* enqueue's wait condition with an off-by-one
EnqueueMustWaitOffByOne(max_size, count) == max_size > 0 /\ count > max_size
\* while (queue->max_size > 0 && queue->count >= queue->max_size)
EnqueueMustWait(max_size, count) == max_size > 0 /\ count >= max_size

\* enqueue that ignores the shutdown flag
EnqueueSeesShutdownNever(shutdown) == FALSE
\* if (queue->shutdown) at entry and after each wake-up of task_queue_enqueue
EnqueueSeesShutdown(shutdown) == shutdown

\* dequeue that reports Shutdown as soon as the flag is set
DequeueReportsShutdownEarly(shutdown, count) == shutdown
\* if (queue->shutdown && queue->count == 0)
DequeueReportsShutdown(shutdown, count) == shutdown /\ count = 0

\* while (queue->count == 0 && !queue->shutdown)
DequeueMustWait(count, shutdown) == count = 0 /\ ~shutdown

\* insertion at the head of the list
InsertAtHead(list, fd) == <<fd>> \o list
\* add to tail: queue->tail->next = task; queue->tail = task (or head = tail = task)
InsertAtTail(list, fd) == Append(list, fd)

\* removal that leaves the head node in the list
RemoveNothing(list) == list
\* queue->head = task->next
RemoveHead(list) == Tail(list)

\* task_queue_enqueue, lines 93-112: append, count++, signal, unlock, return 0
EnqueueAppend(t) ==
    /\ q_list' = InsertAtTail(q_list, fdv[t])
    /\ q_count' = q_count + 1
    /\ \E rest \in WakeOne(q_waiting \ {t}) : q_waiting' = rest
    /\ ret' = [ret EXCEPT ![t] = 0]
    /\ pc' = [pc EXCEPT ![t] = "enq_ret"]
    /\ enq_log' = Append(enq_log, fdv[t])
    /\ UNCHANGED <<q_max, q_shutdown, fdv, waited, deq_log, dropped, at_shutdown>>

\* task_queue_enqueue, the return -1 of a shutdown seen under the mutex
EnqueueRefuse(t) ==
    /\ ret' = [ret EXCEPT ![t] = -1]
    /\ pc' = [pc EXCEPT ![t] = "enq_ret"]
    /\ q_waiting' = q_waiting \ {t}
    /\ UNCHANGED <<q_list, q_count, q_max, q_shutdown, fdv, waited, logvars>>

\* task_queue_enqueue, pthread_cond_wait: release the mutex and block
EnqueueBlock(t) ==
    /\ q_waiting' = q_waiting \cup {t}
    /\ pc' = [pc EXCEPT ![t] = "enq_wait"]
    /\ waited' = [waited EXCEPT ![t] = TRUE]
    /\ UNCHANGED <<q_list, q_count, q_max, q_shutdown, fdv, ret, logvars>>

\* task_queue_enqueue: malloc of the task fails, return -1 before the mutex
EnqueueAllocFail(t) ==
    /\ pc[t] = "enq_call"
    /\ ret' = [ret EXCEPT ![t] = -1]
    /\ pc' = [pc EXCEPT ![t] = "enq_ret"]
    /\ UNCHANGED <<qvars, fdv, waited, logvars>>

\* task_queue_enqueue from pthread_mutex_lock to the first wait or return
EnqueueEntry(t) ==
    /\ pc[t] = "enq_call"
    /\ IF EnqueueSeesShutdown(q_shutdown) THEN EnqueueRefuse(t)
       ELSE IF EnqueueMustWait(q_max, q_count) THEN EnqueueBlock(t)
       ELSE EnqueueAppend(t)

\* task_queue_enqueue after pthread_cond_wait returned (mutex re-acquired)
EnqueueWake(t) ==
    /\ pc[t] = "enq_wait"
    /\ t \notin q_waiting
    /\ IF EnqueueSeesShutdown(q_shutdown) THEN EnqueueRefuse(t)
       ELSE IF EnqueueMustWait(q_max, q_count) THEN EnqueueBlock(t)
       ELSE EnqueueAppend(t)

\* task_queue_dequeue, lines 144-169: unlink the head, count--, signal, return fd
DequeueTake(t) ==
    /\ q_list' = RemoveHead(q_list)
    /\ q_count' = q_count - 1
    /\ IF q_max > 0
       THEN \E rest \in WakeOne(q_waiting \ {t}) : q_waiting' = rest
       ELSE q_waiting' = q_waiting \ {t}
    /\ ret' = [ret EXCEPT ![t] = Head(q_list)]
    /\ fdv' = [fdv EXCEPT ![t] = Head(q_list)]
    /\ pc' = [pc EXCEPT ![t] = "deq_ret"]
    /\ deq_log' = Append(deq_log, Head(q_list))
    /\ UNCHANGED <<q_max, q_shutdown, waited, enq_log, dropped, at_shutdown>>

\* task_queue_dequeue, lines 137-142: shutdown with no task left, return -1
DequeueShutdown(t) ==
    /\ ret' = [ret EXCEPT ![t] = -1]
    /\ fdv' = [fdv EXCEPT ![t] = -1]
    /\ pc' = [pc EXCEPT ![t] = "deq_ret"]
    /\ q_waiting' = q_waiting \ {t}
    /\ UNCHANGED <<q_list, q_count, q_max, q_shutdown, waited, logvars>>

\* task_queue_dequeue, pthread_cond_wait: release the mutex and block
DequeueBlock(t) ==
    /\ q_waiting' = q_waiting \cup {t}
    /\ pc' = [pc EXCEPT ![t] = "deq_wait"]
    /\ waited' = [waited EXCEPT ![t] = TRUE]
    /\ UNCHANGED <<q_list, q_count, q_max, q_shutdown, fdv, ret, logvars>>

DequeueBody(t) ==
    IF DequeueMustWait(q_count, q_shutdown) THEN DequeueBlock(t)
    ELSE IF DequeueReportsShutdown(q_shutdown, q_count) THEN DequeueShutdown(t)
    ELSE DequeueTake(t)

\* task_queue_dequeue from pthread_mutex_lock to the first wait or return
DequeueEntry(t) ==
    /\ pc[t] = "deq_call"
    /\ DequeueBody(t)

\* task_queue_dequeue after pthread_cond_wait returned (mutex re-acquired)
DequeueWake(t) ==
    /\ pc[t] = "deq_wait"
    /\ t \notin q_waiting
    /\ DequeueBody(t)

\* pthread_cond_wait may return without a signal (POSIX spurious wake-up)
SpuriousWakeup(t) ==
    /\ t \in q_waiting
    /\ q_waiting' = q_waiting \ {t}
    /\ UNCHANGED <<q_list, q_count, q_max, q_shutdown, tvars, logvars>>

\* task_queue_shutdown: set the flag and broadcast, under the mutex
TaskQueueShutdown ==
    /\ q_shutdown' = TRUE
    /\ \E rest \in ShutdownWake(q_waiting) : q_waiting' = rest
    /\ at_shutdown' = IF q_shutdown THEN at_shutdown
                      ELSE [set |-> TRUE, list |-> q_list, deqs |-> Len(deq_log)]
    /\ UNCHANGED <<q_list, q_count, q_max, enq_log, deq_log, dropped>>

\* task_queue_destroy: free the remaining nodes, reset head, tail and count
TaskQueueDestroy ==
    /\ dropped' = q_list
    /\ q_list' = <<>>
    /\ q_count' = 0
    /\ UNCHANGED <<q_max, q_shutdown, q_waiting, enq_log, deq_log, at_shutdown>>

\* ------------------------------------------- accept loop body (main.c 112-116)
LoopPc(t) == IF t = Main THEN "loop" ELSE "idle"

restQ == <<poolvars, mainvars, next_fd, conn>>

\* task_queue_enqueue called by thread t, up to its return
EnqueueStep(t) ==
    /\ \/ EnqueueEntry(t)
       \/ EnqueueWake(t)
    /\ UNCHANGED restQ

EnqueueNoMemory(t) ==
    /\ EnqueueAllocFail(t)
    /\ UNCHANGED restQ

\* the loop-local client_fd and the call's result go out of scope
ForgetLocals(t) ==
    /\ fdv' = [fdv EXCEPT ![t] = NoFd]
    /\ ret' = [ret EXCEPT ![t] = 0]
    /\ waited' = [waited EXCEPT ![t] = FALSE]

\* the accept loop without the close(client_fd) on a failed enqueue
EnqueueFailedNoClose(t) ==
    /\ pc[t] = "enq_ret"
    /\ ret[t] < 0
    /\ pc' = [pc EXCEPT ![t] = LoopPc(t)]
    /\ fdv' = [fdv EXCEPT ![t] = NoFd]
    /\ ret' = [ret EXCEPT ![t] = 0]
    /\ UNCHANGED <<qvars, waited, poolvars, mainvars, next_fd, conn, logvars>>

\* if (task_queue_enqueue(&g_queue, client_fd) < 0) close(client_fd);
EnqueueFailedClose(t) ==
    /\ pc[t] = "enq_ret"
    /\ ret[t] < 0
    /\ CloseByAcceptor(fdv[t])
    /\ pc' = [pc EXCEPT ![t] = LoopPc(t)]
    /\ fdv' = [fdv EXCEPT ![t] = NoFd]
    /\ ret' = [ret EXCEPT ![t] = 0]
    /\ UNCHANGED <<qvars, waited, poolvars, mainvars, next_fd, logvars>>

\* task_queue_enqueue returned 0: next iteration of the loop
EnqueueDone(t) ==
    /\ pc[t] = "enq_ret"
    /\ ret[t] = 0
    /\ pc' = [pc EXCEPT ![t] = LoopPc(t)]
    /\ ForgetLocals(t)
    /\ UNCHANGED <<qvars, poolvars, mainvars, next_fd, conn, logvars>>

\* --------------------------------------------- queue-level callers (API use)
\* a producer obtains a descriptor and calls task_queue_enqueue(queue, fd)
ProducerCall(p) ==
    /\ pc[p] = "idle"
    /\ next_fd <= MaxConns
    /\ conn' = [conn EXCEPT ![next_fd].state = "open", ![next_fd].opener = p]
    /\ fdv' = [fdv EXCEPT ![p] = next_fd]
    /\ waited' = [waited EXCEPT ![p] = FALSE]
    /\ pc' = [pc EXCEPT ![p] = "enq_call"]
    /\ next_fd' = next_fd + 1
    /\ UNCHANGED <<qvars, ret, poolvars, mainvars, logvars>>

DequeueStep(c) ==
    /\ \/ DequeueEntry(c)
       \/ DequeueWake(c)
    /\ UNCHANGED restQ

\* the consumer has its result and calls task_queue_dequeue(queue) again
ConsumerReturn(c) ==
    /\ pc[c] = "deq_ret"
    /\ pc' = [pc EXCEPT ![c] = "deq_call"]
    /\ ForgetLocals(c)
    /\ UNCHANGED <<qvars, poolvars, mainvars, next_fd, conn, logvars>>

CondSpurious(t) ==
    /\ SpuriousWakeup(t)
    /\ UNCHANGED restQ

\* some thread calls task_queue_shutdown(queue)
ShutdownCall ==
    /\ TaskQueueShutdown
    /\ UNCHANGED <<tvars, poolvars, mainvars, next_fd, conn>>

QThreads == Producers \cup Consumers

\* task_queue_init(queue, max_size) has returned 0; no call has been made yet
InitQ ==
    /\ q_list = <<>>
    /\ q_count = 0
    /\ q_max \in 0..MaxQueueSize
    /\ q_shutdown = FALSE
    /\ q_waiting = {}
    /\ pc = [t \in Threads |-> IF t \in Producers THEN "idle"
                              ELSE IF t \in Consumers THEN "deq_call" ELSE "off"]
    /\ fdv = [t \in Threads |-> NoFd]
    /\ ret = [t \in Threads |-> 0]
    /\ waited = [t \in Threads |-> FALSE]
    /\ pool_shutdown = FALSE
    /\ synced = [w \in Workers |-> FALSE]
    /\ threads = [w \in Workers |-> FALSE]
    /\ joins = NoJoins
    /\ g_running = 1
    /\ pipe_bytes = 0
    /\ sig_pc = "none"
    /\ signals = 0
    /\ next_fd = 1
    /\ conn = [fd \in Fds |-> NewConn]
    /\ enq_log = <<>>
    /\ deq_log = <<>>
    /\ dropped = <<>>
    /\ at_shutdown = [set |-> FALSE, list |-> <<>>, deqs |-> 0]

NextQ ==
    \/ \E p \in Producers : ProducerCall(p)
    \/ \E p \in Producers : EnqueueStep(p)
    \/ \E p \in Producers : EnqueueNoMemory(p)
    \/ \E p \in Producers : EnqueueFailedClose(p)
    \/ \E p \in Producers : EnqueueDone(p)
    \/ \E c \in Consumers : DequeueStep(c)
    \/ \E c \in Consumers : ConsumerReturn(c)
    \/ \E t \in QThreads : CondSpurious(t)
    \/ ShutdownCall

SpecQ == InitQ /\ [][NextQ]_vars

\* ------------------------------------------------- connection pipeline
HTTP_OK            == 200
HTTP_BAD_REQUEST   == 400
HTTP_UNPROCESSABLE == 422

\* The request every client sends: a payment and its retries.  parse is the
\* status of the first failing check of Steps 2-5 of connection_handle (0 when
\* the request parses).
Requests ==
    { [parse |-> 0, method |-> "POST", uri |-> "/payment", has_key |-> TRUE,
       key |-> "k1", body_length |-> 1] }

\* http_response_create_error: the JSON error body
ErrorBody(status, message) == <<"error", message, status>>

\* Step 6: if (request.method == HTTP_METHOD_POST && !request.has_idempotency_key)
MissingKey(req) == req.method = "POST" /\ ~req.has_key

\* Step 7 is executed: no goto send_response was taken before it
HandlerStepRuns(req) == req.parse = 0 /\ ~MissingKey(req)

\* Step 7: the success body built by snprintf
SuccessBody(req) ==
    IF req.method = "POST" /\ req.has_key
    THEN <<"success", "Payment processed", req.key, req.body_length>>
    ELSE <<"success", "Request received", req.method, req.uri>>

\* connection_handle, Steps 2-7: the response that is serialized
ResponseFor(req) ==
    IF req.parse # 0
    THEN [status |-> req.parse, body |-> ErrorBody(req.parse, "Malformed HTTP request")]
    ELSE IF MissingKey(req)
    THEN [status |-> HTTP_UNPROCESSABLE,
          body |-> ErrorBody(HTTP_UNPROCESSABLE,
                             "POST requests require X-Idempotency-Key header")]
    ELSE [status |-> HTTP_OK, body |-> SuccessBody(req)]

Finished == {fd \in Fds : conn[fd].finished}

\* a pipeline whose read failure shuts the pool down
ConnReadFatal(w) ==
    /\ pc[w] = "handle"
    /\ \E got \in BOOLEAN :
          /\ conn' = [conn EXCEPT ![fdv[w]].handles = @ + 1,
                                  ![fdv[w]].done_before = Finished,
                                  ![fdv[w]].finished = ~got,
                                  ![fdv[w]].result = IF got THEN 0 ELSE -1]
          /\ pc' = [pc EXCEPT ![w] = IF got THEN "respond" ELSE "close"]
          /\ pool_shutdown' = (pool_shutdown \/ ~got)
    /\ UNCHANGED <<qvars, fdv, ret, waited, synced, threads, joins, mainvars,
                   next_fd, logvars>>

\* connection_handle, Step 1: connection_read; a read of 0 bytes or a failed
\* read returns -1 without a response
ConnRead(w) ==
    /\ pc[w] = "handle"
    /\ \E got \in BOOLEAN :
          /\ conn' = [conn EXCEPT ![fdv[w]].handles = @ + 1,
                                  ![fdv[w]].done_before = Finished,
                                  ![fdv[w]].finished = ~got,
                                  ![fdv[w]].result = IF got THEN 0 ELSE -1]
          /\ pc' = [pc EXCEPT ![w] = IF got THEN "respond" ELSE "close"]
    /\ UNCHANGED <<qvars, fdv, ret, waited, poolvars, mainvars, next_fd, logvars>>

\* connection_handle, Steps 2-9: build the response, serialize it, run the send
\* loop and return; result = -1 when http_response_serialize returns NULL or
\* connection_write fails
ConnRespond(w) ==
    /\ pc[w] = "respond"
    /\ \E sent \in BOOLEAN :
          conn' = [conn EXCEPT
                  ![fdv[w]].resp = ResponseFor(conn[fdv[w]].req),
                  ![fdv[w]].handler_runs =
                       IF HandlerStepRuns(conn[fdv[w]].req) THEN @ + 1 ELSE @,
                  ![fdv[w]].finished = TRUE,
                  ![fdv[w]].result = IF sent THEN 0 ELSE -1]
    /\ pc' = [pc EXCEPT ![w] = "close"]
    /\ UNCHANGED <<qvars, fdv, ret, waited, poolvars, mainvars, next_fd, logvars>>

\* --------------------------------------------------------- worker_thread
\* a read of pool->shutdown (a plain bool written by main without a lock): a
\* worker that has not locked the queue mutex since task_queue_shutdown may
\* still read the old value
ReadPoolShutdown(w) ==
    IF pool_shutdown /\ ~synced[w] THEN {TRUE, FALSE} ELSE {pool_shutdown}

\* while (!pool->shutdown)
WorkerLoop(w) ==
    /\ pc[w] = "loop"
    /\ \E seen \in ReadPoolShutdown(w) :
          pc' = [pc EXCEPT ![w] = IF seen THEN "exited" ELSE "deq_call"]
    /\ UNCHANGED <<qvars, fdv, ret, waited, poolvars, mainvars, next_fd, conn, logvars>>

\* int client_fd = task_queue_dequeue(pool->queue);
WorkerDequeue(w) ==
    /\ \/ DequeueEntry(w)
       \/ DequeueWake(w)
    /\ synced' = [synced EXCEPT ![w] = @ \/ q_shutdown]
    /\ UNCHANGED <<pool_shutdown, threads, joins, mainvars, next_fd, conn>>

\* if (client_fd < 0) { if (pool->shutdown) break; continue; }
WorkerDequeueReturn(w) ==
    /\ pc[w] = "deq_ret"
    /\ IF ret[w] < 0
       THEN /\ \E seen \in ReadPoolShutdown(w) :
                  pc' = [pc EXCEPT ![w] = IF seen THEN "exited" ELSE "loop"]
            /\ ForgetLocals(w)
       ELSE /\ pc' = [pc EXCEPT ![w] = "handle"]
            /\ waited' = [waited EXCEPT ![w] = FALSE]
            /\ UNCHANGED <<fdv, ret>>
    /\ UNCHANGED <<qvars, poolvars, mainvars, next_fd, conn, logvars>>

\* a worker that closes the descriptor only when connection_handle returned 0
WorkerCloseOnSuccess(w) ==
    /\ pc[w] = "close"
    /\ IF conn[fdv[w]].result = 0 THEN CloseByWorker(fdv[w]) ELSE UNCHANGED conn
    /\ pc' = [pc EXCEPT ![w] = "loop"]
    /\ ForgetLocals(w)
    /\ UNCHANGED <<qvars, poolvars, mainvars, next_fd, logvars>>

\* close(client_fd) after connection_handle returned
WorkerClose(w) ==
    /\ pc[w] = "close"
    /\ CloseByWorker(fdv[w])
    /\ pc' = [pc EXCEPT ![w] = "loop"]
    /\ ForgetLocals(w)
    /\ UNCHANGED <<qvars, poolvars, mainvars, next_fd, logvars>>

WorkerSpurious(w) ==
    /\ SpuriousWakeup(w)
    /\ UNCHANGED restQ

\* ------------------------------------------------ signal_handler (main.c)
\* SIGINT or SIGTERM is delivered: g_running = 0
SignalArrives ==
    /\ signals < MaxSignals
    /\ sig_pc = "none"
    /\ pc[Main] # "done"
    /\ g_running' = 0
    /\ sig_pc' = "write"
    /\ signals' = signals + 1
    /\ UNCHANGED <<qvars, tvars, poolvars, pipe_bytes, next_fd, conn, logvars>>

\* a listener_shutdown that returns without having written its byte
ListenerShutdownLost ==
    /\ sig_pc = "write"
    /\ sig_pc' = "none"
    /\ UNCHANGED <<qvars, tvars, poolvars, g_running, pipe_bytes, signals, next_fd,
                   conn, logvars>>

\* a listener_shutdown whose write blocks while a byte is unread
ListenerShutdownFullPipe ==
    /\ sig_pc = "write"
    /\ pipe_bytes = 0
    /\ pipe_bytes' = IF pc[Main] = "done" THEN pipe_bytes ELSE pipe_bytes + 1
    /\ sig_pc' = "none"
    /\ UNCHANGED <<qvars, tvars, poolvars, g_running, signals, next_fd, conn, logvars>>

\* listener_shutdown: write one byte to shutdown_pipe[1] (fails once the
\* listener is destroyed and the pipe is closed)
ListenerShutdown ==
    /\ sig_pc = "write"
    /\ pipe_bytes' = IF pc[Main] = "done" THEN pipe_bytes ELSE pipe_bytes + 1
    /\ sig_pc' = "none"
    /\ UNCHANGED <<qvars, tvars, poolvars, g_running, signals, next_fd, conn, logvars>>

\* ------------------------------------------------------------ main (main.c)
MainGoto(label) == pc' = [pc EXCEPT ![Main] = label]

\* thread_pool_start: its return value when the slots in created got a thread
ThreadPoolStartReturn(created) == 0

\* thread_pool_start that leaves the slot of a failed pthread_create marked
\* as holding a thread
ThreadPoolStartNoRecord(created) ==
    /\ pc[Main] = "start"
    /\ threads' = [w \in Workers |-> TRUE]
    /\ pc' = [t \in Threads |->
                IF t = Main
                THEN IF ThreadPoolStartReturn(created) < 0 THEN "aborted" ELSE "loop"
                ELSE IF t \in created THEN "loop" ELSE pc[t]]
    /\ UNCHANGED <<qvars, fdv, ret, waited, pool_shutdown, synced, joins,
                   mainvars, next_fd, conn, logvars>>

\* main: if (thread_pool_start(&g_pool) < 0) { ... return EXIT_FAILURE; }
\* thread_pool_start: pthread_create for every slot; a failed slot is set to 0
\* and the loop continues; the created workers start running worker_thread
ThreadPoolStart(created) ==
    /\ pc[Main] = "start"
    /\ threads' = [w \in Workers |-> w \in created]
    /\ pc' = [t \in Threads |->
                IF t = Main
                THEN IF ThreadPoolStartReturn(created) < 0 THEN "aborted" ELSE "loop"
                ELSE IF t \in created THEN "loop" ELSE pc[t]]
    /\ UNCHANGED <<qvars, fdv, ret, waited, pool_shutdown, synced, joins,
                   mainvars, next_fd, conn, logvars>>

\* while (g_running)
MainLoop ==
    /\ pc[Main] = "loop"
    /\ MainGoto(IF g_running # 0 THEN "accept" ELSE "sd_flag")
    /\ UNCHANGED <<qvars, fdv, ret, waited, poolvars, mainvars, next_fd, conn, logvars>>

\* listener_accept: the shutdown pipe is readable: drain one byte, return -2
AcceptShutdown ==
    /\ pc[Main] = "accept"
    /\ pipe_bytes > 0
    /\ pipe_bytes' = pipe_bytes - 1
    /\ MainGoto("sd_flag")
    /\ UNCHANGED <<qvars, fdv, ret, waited, poolvars, g_running, sig_pc, signals,
                   next_fd, conn, logvars>>

\* a listener_accept that looks at the listening socket before the pipe
AcceptConnectionFirst ==
    /\ pc[Main] = "accept"
    /\ next_fd <= MaxConns
    /\ \E req \in Requests :
          conn' = [conn EXCEPT ![next_fd].state = "open", ![next_fd].opener = Main,
                               ![next_fd].req = req]
    /\ fdv' = [fdv EXCEPT ![Main] = next_fd]
    /\ waited' = [waited EXCEPT ![Main] = FALSE]
    /\ next_fd' = next_fd + 1
    /\ MainGoto("enq_call")
    /\ UNCHANGED <<qvars, ret, poolvars, mainvars, logvars>>

\* listener_accept: only the listening socket is readable: accept() a client
AcceptConnection ==
    /\ pc[Main] = "accept"
    /\ pipe_bytes = 0
    /\ next_fd <= MaxConns
    /\ \E req \in Requests :
          conn' = [conn EXCEPT ![next_fd].state = "open", ![next_fd].opener = Main,
                               ![next_fd].req = req]
    /\ fdv' = [fdv EXCEPT ![Main] = next_fd]
    /\ waited' = [waited EXCEPT ![Main] = FALSE]
    /\ next_fd' = next_fd + 1
    /\ MainGoto("enq_call")
    /\ UNCHANGED <<qvars, ret, poolvars, mainvars, logvars>>

\* listener_accept returns -1: select() interrupted or accept() failed
AcceptFails ==
    /\ pc[Main] = "accept"
    /\ MainGoto("accept_err")
    /\ UNCHANGED <<qvars, fdv, ret, waited, poolvars, mainvars, next_fd, conn, logvars>>

\* an accept loop that ends on any failed listener_accept
AcceptErrorFatal ==
    /\ pc[Main] = "accept_err"
    /\ MainGoto("sd_flag")
    /\ UNCHANGED <<qvars, fdv, ret, waited, poolvars, mainvars, next_fd, conn, logvars>>

\* if (client_fd < 0) { if (!g_running) break; continue; }
AcceptErrorCheck ==
    /\ pc[Main] = "accept_err"
    /\ MainGoto(IF g_running = 0 THEN "sd_flag" ELSE "loop")
    /\ UNCHANGED <<qvars, fdv, ret, waited, poolvars, mainvars, next_fd, conn, logvars>>

\* thread_pool_shutdown: pool->shutdown = true
PoolSetShutdown ==
    /\ pc[Main] = "sd_flag"
    /\ pool_shutdown' = TRUE
    /\ MainGoto("sd_queue")
    /\ UNCHANGED <<qvars, fdv, ret, waited, synced, threads, joins, mainvars,
                   next_fd, conn, logvars>>

\* thread_pool_shutdown: task_queue_shutdown(pool->queue)
PoolQueueShutdown ==
    /\ pc[Main] = "sd_queue"
    /\ TaskQueueShutdown
    /\ MainGoto("join")
    /\ UNCHANGED <<fdv, ret, waited, poolvars, mainvars, next_fd, conn>>

\* the slots thread_pool_shutdown calls pthread_join on
Started == {w \in Workers : threads[w]}

\* a join loop that does not wait for the thread to finish
PoolJoinNoWait(failed) ==
    /\ pc[Main] = "join"
    /\ failed \subseteq Started
    /\ joins' = [tried |-> Started, ok |-> Started \ failed]
    /\ MainGoto("q_destroy")
    /\ UNCHANGED <<qvars, fdv, ret, waited, pool_shutdown, synced, threads,
                   mainvars, next_fd, conn, logvars>>

\* thread_pool_shutdown: the join loop, then return 0.  pthread_join blocks
\* until the thread has terminated; for the slots in failed it returns an
\* error at once and the loop goes on to the next slot
PoolJoin(failed) ==
    /\ pc[Main] = "join"
    /\ failed \subseteq Started
    /\ \A w \in Started \ failed : pc[w] = "exited"
    /\ joins' = [tried |-> Started, ok |-> Started \ failed]
    /\ MainGoto("q_destroy")
    /\ UNCHANGED <<qvars, fdv, ret, waited, pool_shutdown, synced, threads,
                   mainvars, next_fd, conn, logvars>>

\* A cleanup that frees the queue without waiting for the joins.
QueueDestroyEarly ==
    /\ pc[Main] \in {"join", "q_destroy"}
    /\ TaskQueueDestroy
    /\ MainGoto("l_destroy")
    /\ UNCHANGED <<fdv, ret, waited, poolvars, mainvars, next_fd, conn>>

\* thread_pool_destroy(&g_pool); task_queue_destroy(&g_queue);
QueueDestroy ==
    /\ pc[Main] = "q_destroy"
    /\ TaskQueueDestroy
    /\ MainGoto("l_destroy")
    /\ UNCHANGED <<fdv, ret, waited, poolvars, mainvars, next_fd, conn>>

\* listener_destroy(&g_listener); return EXIT_SUCCESS;
ListenerDestroy ==
    /\ pc[Main] = "l_destroy"
    /\ MainGoto("done")
    /\ UNCHANGED <<qvars, fdv, ret, waited, poolvars, mainvars, next_fd, conn, logvars>>

\* main has initialised the queue (unlimited) and the pool and is about to
\* call thread_pool_start
Init ==
    /\ q_list = <<>>
    /\ q_count = 0
    /\ q_max = 0
    /\ q_shutdown = FALSE
    /\ q_waiting = {}
    /\ pc = [t \in Threads |-> IF t = Main THEN "start"
                              ELSE IF t \in Workers THEN "unstarted" ELSE "off"]
    /\ fdv = [t \in Threads |-> NoFd]
    /\ ret = [t \in Threads |-> 0]
    /\ waited = [t \in Threads |-> FALSE]
    /\ pool_shutdown = FALSE
    /\ synced = [w \in Workers |-> FALSE]
    /\ threads = [w \in Workers |-> FALSE]
    /\ joins = NoJoins
    /\ g_running = 1
    /\ pipe_bytes = 0
    /\ sig_pc = "none"
    /\ signals = 0
    /\ next_fd = 1
    /\ conn = [fd \in Fds |-> NewConn]
    /\ enq_log = <<>>
    /\ deq_log = <<>>
    /\ dropped = <<>>
    /\ at_shutdown = [set |-> FALSE, list |-> <<>>, deqs |-> 0]

Next ==
    \/ \E created \in SUBSET Workers : ThreadPoolStart(created)
    \/ MainLoop
    \/ AcceptShutdown
    \/ AcceptConnection
    \/ AcceptFails
    \/ AcceptErrorCheck
    \/ EnqueueStep(Main)
    \/ EnqueueNoMemory(Main)
    \/ EnqueueFailedClose(Main)
    \/ EnqueueDone(Main)
    \/ PoolSetShutdown
    \/ PoolQueueShutdown
    \/ PoolJoin({})
    \/ QueueDestroy
    \/ ListenerDestroy
    \/ SignalArrives
    \/ ListenerShutdown
    \/ \E w \in Workers : WorkerLoop(w)
    \/ \E w \in Workers : WorkerDequeue(w)
    \/ \E w \in Workers : WorkerDequeueReturn(w)
    \/ \E w \in Workers : ConnRead(w)
    \/ \E w \in Workers : ConnRespond(w)
    \/ \E w \in Workers : WorkerClose(w)
    \/ \E w \in Workers : WorkerSpurious(w)

Spec == Init /\ [][Next]_vars

\* the scheduler runs every thread that is ready to run
FairSpecQ ==
    /\ SpecQ
    /\ \A p \in Producers : WF_vars(EnqueueStep(p))
    /\ \A c \in Consumers : WF_vars(DequeueStep(c))

\* ------------------------------------- the listener and the accept loop
\* main from the accept loop on, the workers left out: accepted connections
\* stay in the queue.  listener_shutdown is called by the signal handler and
\* also directly, by any thread, without g_running being cleared.
ListenerShutdownCall ==
    /\ signals < MaxShutdownCalls
    /\ sig_pc = "none"
    /\ pc[Main] # "done"
    /\ sig_pc' = "write"
    /\ signals' = signals + 1
    /\ UNCHANGED <<qvars, tvars, poolvars, g_running, pipe_bytes, next_fd, conn, logvars>>

\* thread_pool_start, listener_init and listener_start have returned 0
InitL ==
    /\ q_list = <<>>
    /\ q_count = 0
    /\ q_max = 0
    /\ q_shutdown = FALSE
    /\ q_waiting = {}
    /\ pc = [t \in Threads |-> IF t = Main THEN "loop"
                              ELSE IF t \in Workers THEN "unstarted" ELSE "off"]
    /\ fdv = [t \in Threads |-> NoFd]
    /\ ret = [t \in Threads |-> 0]
    /\ waited = [t \in Threads |-> FALSE]
    /\ pool_shutdown = FALSE
    /\ synced = [w \in Workers |-> FALSE]
    /\ threads = [w \in Workers |-> FALSE]
    /\ joins = NoJoins
    /\ g_running = 1
    /\ pipe_bytes = 0
    /\ sig_pc = "none"
    /\ signals = 0
    /\ next_fd = 1
    /\ conn = [fd \in Fds |-> NewConn]
    /\ enq_log = <<>>
    /\ deq_log = <<>>
    /\ dropped = <<>>
    /\ at_shutdown = [set |-> FALSE, list |-> <<>>, deqs |-> 0]

NextL ==
    \/ MainLoop
    \/ AcceptShutdown
    \/ AcceptConnection
    \/ AcceptFails
    \/ AcceptErrorCheck
    \/ EnqueueStep(Main)
    \/ EnqueueNoMemory(Main)
    \/ EnqueueFailedClose(Main)
    \/ EnqueueDone(Main)
    \/ PoolSetShutdown
    \/ PoolQueueShutdown
    \/ PoolJoin({})
    \/ QueueDestroy
    \/ ListenerDestroy
    \/ SignalArrives
    \/ ListenerShutdownCall
    \/ ListenerShutdown

SpecL == InitL /\ [][NextL]_vars

\* select() returns once the shutdown pipe is readable, and a listener_shutdown
\* call that has started performs its write
FairSpecL ==
    /\ SpecL
    /\ WF_vars(AcceptShutdown)
    /\ WF_vars(ListenerShutdown)

\* ------------------------------------------ the pool used through its API
\* The thread pool and its queue driven by an owner (in the place of main)
\* that starts the pool, hands it connections and calls task_queue_shutdown on
\* the queue, thread_pool_shutdown on the pool, or both.
\* the owner hands a client's connection to task_queue_enqueue(queue, fd)
OwnerSubmit ==
    /\ pc[Main] = "loop"
    /\ next_fd <= MaxConns
    /\ \E req \in Requests :
          conn' = [conn EXCEPT ![next_fd].state = "open", ![next_fd].opener = Main,
                               ![next_fd].req = req]
    /\ fdv' = [fdv EXCEPT ![Main] = next_fd]
    /\ waited' = [waited EXCEPT ![Main] = FALSE]
    /\ next_fd' = next_fd + 1
    /\ MainGoto("enq_call")
    /\ UNCHANGED <<qvars, ret, poolvars, mainvars, logvars>>

\* the owner calls task_queue_shutdown(queue) itself
OwnerQueueShutdown ==
    /\ pc[Main] = "loop"
    /\ ~q_shutdown
    /\ TaskQueueShutdown
    /\ UNCHANGED <<tvars, poolvars, mainvars, next_fd, conn>>

\* the owner calls thread_pool_shutdown(pool)
OwnerPoolShutdown ==
    /\ pc[Main] = "loop"
    /\ MainGoto("sd_flag")
    /\ UNCHANGED <<qvars, fdv, ret, waited, poolvars, mainvars, next_fd, conn, logvars>>

NextP ==
    \/ \E created \in SUBSET Workers : ThreadPoolStart(created)
    \/ OwnerSubmit
    \/ EnqueueStep(Main)
    \/ EnqueueFailedClose(Main)
    \/ EnqueueDone(Main)
    \/ OwnerQueueShutdown
    \/ OwnerPoolShutdown
    \/ PoolSetShutdown
    \/ PoolQueueShutdown
    \/ \E failed \in SUBSET Workers : PoolJoin(failed)
    \/ \E w \in Workers : WorkerLoop(w)
    \/ \E w \in Workers : WorkerDequeue(w)
    \/ \E w \in Workers : WorkerDequeueReturn(w)
    \/ \E w \in Workers : ConnRead(w)
    \/ \E w \in Workers : ConnRespond(w)
    \/ \E w \in Workers : WorkerClose(w)
    \/ \E w \in Workers : WorkerSpurious(w)

SpecPool == Init /\ [][NextP]_vars

\* the scheduler runs every worker that is ready to run, every pipeline that
\* was started terminates, and main goes on through thread_pool_shutdown
WorkerStep(w) ==
    \/ WorkerLoop(w)
    \/ WorkerDequeue(w)
    \/ WorkerDequeueReturn(w)
    \/ ConnRead(w)
    \/ ConnRespond(w)
    \/ WorkerClose(w)

FairSpec ==
    /\ Spec
    /\ WF_vars(PoolSetShutdown \/ PoolQueueShutdown \/ PoolJoin({}))
    /\ \A w \in Workers : WF_vars(WorkerStep(w))

\* ---------------------------------------------------------------- helpers
Range(seq) == {seq[k] : k \in 1..Len(seq)}
IsPrefix(a, b) == Len(a) <= Len(b) /\ \A k \in 1..Len(a) : a[k] = b[k]
Occurrences(seq, x) == Cardinality({k \in 1..Len(seq) : seq[k] = x})

\* ------------------------------------------------------------------ claims

\* C3: FIFO delivery. The k-th descriptor returned by task_queue_dequeue is the
\* k-th descriptor appended by a successful task_queue_enqueue, whatever the
\* interleaving of producers and consumers.
C3_FifoDelivery == IsPrefix(deq_log, enq_log)

\* every descriptor was delivered, the first delivered is not the first accepted
C3_Witness == Len(deq_log) >= 2 /\ deq_log[1] # 1

\* C6: drain on shutdown at the queue level. A dequeue call blocks only when it
\* finds the queue empty and not shut down; a call that returns finds either a
\* task, which is the head of the list, or an empty queue that is shut down
\* (-1); so after task_queue_shutdown the tasks that were left are returned in
\* FIFO order and -1 is reported only on the empty queue.
C6_DequeueStep(c) ==
    /\ (c \notin q_waiting /\ c \in q_waiting')
          => (q_list = <<>> /\ ~q_shutdown)
    /\ (pc[c] \in {"deq_call", "deq_wait"} /\ pc'[c] = "deq_ret")
          => IF q_list = <<>>
             THEN q_shutdown /\ ret'[c] = -1 /\ q_list' = q_list
             ELSE ret'[c] = Head(q_list) /\ q_list' = Tail(q_list)

C6_Drained ==
    at_shutdown.set =>
        /\ at_shutdown.list =
              SubSeq(deq_log, at_shutdown.deqs + 1, Len(deq_log)) \o q_list
        /\ \A c \in Consumers :
              (pc[c] = "deq_ret" /\ ret[c] = -1) => q_list = <<>>

C6_DrainOnShutdown ==
    /\ [](C6_Drained)
    /\ [][\A c \in Consumers : C6_DequeueStep(c)]_vars

\* two tasks were left at shutdown, both were then returned, and a later call
\* reported Shutdown
C6_Witness ==
    /\ at_shutdown.set
    /\ Len(at_shutdown.list) >= 2
    /\ Len(deq_log) = at_shutdown.deqs + Len(at_shutdown.list)
    /\ \E c \in Consumers : pc[c] = "deq_ret" /\ ret[c] = -1

\* C7: enqueue after shutdown. A task_queue_enqueue call that takes the mutex
\* once the shutdown flag is set returns -1 in that step, without waiting, and
\* nothing is appended to the queue after shutdown.
C7_EnqueueStep(p) ==
    (q_shutdown /\ pc[p] = "enq_call" /\ pc'[p] # "enq_call")
        => /\ pc'[p] = "enq_ret"
           /\ ret'[p] = -1
           /\ p \notin q_waiting'
           /\ q_list' = q_list
           /\ q_count' = q_count

C7_EnqueueAfterShutdown ==
    [][/\ \A p \in Producers : C7_EnqueueStep(p)
       /\ q_shutdown => (enq_log' = enq_log /\ q_count' <= q_count)]_vars

\* the queue is full and shut down, and a call that never waited returned -1
C7_Witness ==
    /\ q_shutdown
    /\ q_max > 0
    /\ q_count >= q_max
    /\ \E p \in Producers : pc[p] = "enq_ret" /\ ret[p] = -1 /\ ~waited[p]

\* C8: enqueue racing with shutdown never silently loses a task. A returned
\* enqueue call has returned 0 exactly when its descriptor was appended and -1
\* exactly when it was not; a descriptor whose call is over is in the queue's
\* history or has been closed by the caller, never neither and never both.
C8_NoSilentLoss ==
    \A fd \in Fds :
        LET queued == fd \in Range(enq_log)
            holder == {p \in Enqueuers : fdv[p] = fd}
        IN  conn[fd].state # "unborn" =>
              /\ Occurrences(enq_log, fd) <= 1
              /\ \A p \in holder :
                    /\ pc[p] \in {"enq_call", "enq_wait"} => ~queued
                    /\ pc[p] = "enq_ret" =>
                          /\ ret[p] \in {0, -1}
                          /\ ret[p] = 0 <=> queued
                          /\ ret[p] = -1 <=> ~queued
              /\ holder = {} =>
                    /\ queued \/ conn[fd].state = "closed"
                    /\ ~(queued /\ conn[fd].closes_acc > 0)

\* a producer was blocked on the full queue when shutdown came, was refused and
\* has closed its descriptor, while an earlier descriptor had been queued
C8_Witness ==
    /\ q_shutdown
    /\ \E fd \in Fds :
          /\ conn[fd].state = "closed"
          /\ conn[fd].closes_acc = 1
          /\ fd \notin Range(enq_log)
    /\ \E p \in Producers : pc[p] = "idle" /\ waited[p]
    /\ enq_log # <<>>

\* C9: capacity bound. With max_size > 0 the queue never holds more than
\* max_size tasks and an enqueue call that finds it full (and not shut down)
\* blocks; with max_size == 0 no enqueue call ever blocks.
C9_Bounded ==
    /\ q_max > 0 => (q_count <= q_max /\ Len(q_list) <= q_max)
    /\ q_max = 0 => \A p \in Producers : pc[p] # "enq_wait" /\ p \notin q_waiting

C9_EnqueueStep(p) ==
    (/\ \/ pc[p] = "enq_call" /\ pc'[p] # "enq_call"
           /\ ~(pc'[p] = "enq_ret" /\ ret'[p] = -1)
        \/ pc[p] = "enq_wait" /\ p \notin q_waiting
           /\ (pc'[p] # "enq_wait" \/ p \in q_waiting')
     /\ ~q_shutdown /\ q_max > 0 /\ q_count >= q_max)
        => (pc'[p] = "enq_wait" /\ p \in q_waiting' /\ q_list' = q_list)

C9_CapacityBound ==
    /\ [](C9_Bounded)
    /\ [][\A p \in Producers : C9_EnqueueStep(p)]_vars

\* a bounded queue is full and a producer is blocked on it
C9_Witness ==
    /\ q_max > 0
    /\ q_count = q_max
    /\ \E p \in Producers : pc[p] = "enq_wait" /\ p \in q_waiting

\* C10: shutdown wakes everyone. After task_queue_shutdown no thread is blocked
\* on the condition variable, and every thread that was inside a wait returns:
\* a producer with -1, a consumer with a task or with -1.
C10_ShutdownWakesAll ==
    /\ [](q_shutdown => q_waiting = {})
    /\ \A p \in Producers :
          (q_shutdown /\ pc[p] = "enq_wait") ~> (pc[p] = "enq_ret" /\ ret[p] = -1)
    /\ \A c \in Consumers :
          (q_shutdown /\ pc[c] = "deq_wait") ~> (pc[c] = "deq_ret")

\* after shutdown, a producer that had been blocked returned -1 and a consumer
\* that had been blocked returned Shutdown
C10_Witness ==
    /\ q_shutdown
    /\ \E p \in Producers : pc[p] = "enq_ret" /\ ret[p] = -1 /\ waited[p]
    /\ \E c \in Consumers : pc[c] = "deq_ret" /\ ret[c] = -1 /\ waited[c]

\* two connections carry the same idempotency key and both got a response
SameKey(f1, f2) ==
    /\ f1 # f2
    /\ conn[f1].finished /\ conn[f2].finished
    /\ conn[f1].resp # NoResp /\ conn[f2].resp # NoResp
    /\ conn[f1].req.has_key /\ conn[f2].req.has_key
    /\ conn[f1].req.key = conn[f2].req.key

\* C1: idempotency replay. Of two requests with the same X-Idempotency-Key
\* handled one after the other, the second gets the status and body of the
\* first and the handler step (Step 7) runs once for the two.
C1_IdempotencyReplay ==
    \A f1, f2 \in Fds :
        (SameKey(f1, f2) /\ f1 \in conn[f2].done_before)
            => /\ conn[f2].resp = conn[f1].resp
               /\ conn[f1].handler_runs + conn[f2].handler_runs = 1

\* C2: concurrent duplicate safety. When two workers are inside
\* connection_handle at the same time for two sockets with the same new key,
\* the handler step runs once for the two.
C2_ConcurrentDuplicate ==
    \A f1, f2 \in Fds :
        (/\ SameKey(f1, f2)
         /\ f1 \notin conn[f2].done_before
         /\ f2 \notin conn[f1].done_before
         /\ \A f3 \in conn[f1].done_before \cup conn[f2].done_before :
               conn[f3].req.key # conn[f1].req.key)
            => conn[f1].handler_runs + conn[f2].handler_runs = 1

\* C4: no duplicate delivery. A descriptor is returned by task_queue_dequeue
\* at most once, is held by at most one worker at a time, is handed to
\* connection_handle at most once and closed at most once; a worker closes only
\* a descriptor it was given and has handled, and once no worker holds a
\* delivered descriptor it has been handled and closed by a worker.
C4_NoDuplicateDelivery ==
    \A fd \in Fds :
        LET holders == {w \in Workers : fdv[w] = fd}
            delivered == fd \in Range(deq_log)
        IN  /\ Occurrences(deq_log, fd) <= 1
            /\ Cardinality(holders) <= 1
            /\ conn[fd].handles <= 1
            /\ conn[fd].closes_wrk + conn[fd].closes_acc <= 1
            /\ holders # {} => (delivered /\ conn[fd].state = "open")
            /\ conn[fd].handles = 1 => delivered
            /\ conn[fd].closes_wrk = 1 => (conn[fd].handles = 1 /\ conn[fd].finished)
            /\ (delivered /\ holders = {})
                  => (conn[fd].handles = 1 /\ conn[fd].closes_wrk = 1)

\* two workers are handling two different descriptors at the same time
C4_Witness ==
    \E w1, w2 \in Workers :
        /\ pc[w1] = "respond"
        /\ pc[w2] = "close"
        /\ fdv[w1] # fdv[w2]
        /\ conn[fdv[w2]].handles = 1

\* C5: no task loss across shutdown. When main has finished shutting down,
\* every descriptor task_queue_enqueue accepted has been dequeued and
\* task_queue_destroy found no task to drop.
C5_NoTaskLoss ==
    pc[Main] = "done" => (dropped = <<>> /\ Len(deq_log) = Len(enq_log))

\* C11: no lost wakeup on a bounded queue. Without shutdown there is no state
\* in which a producer is blocked in task_queue_enqueue on a queue that is not
\* full while every worker is blocked in task_queue_dequeue on the empty
\* queue, one producer having made every enqueue call.
C11_NoLostWakeup ==
    ~ \E p \in Producers :
         /\ ~q_shutdown
         /\ q_max > 0
         /\ pc[p] = "enq_wait" /\ p \in q_waiting
         /\ q_count < q_max
         /\ \A fd \in Fds : conn[fd].opener \in {"none", p}
         /\ \A c \in Consumers : pc[c] = "deq_wait" /\ c \in q_waiting
         /\ q_count = 0

\* thread_pool_shutdown has returned
PoolShutdownReturned == pc[Main] \in {"q_destroy", "l_destroy", "done"}

\* every started worker has left its loop and every descriptor that was
\* delivered to a worker has been handled to the end and closed by it
C12_AllWorkersDone ==
    /\ \A w \in Started : pc[w] = "exited"
    /\ \A fd \in Range(deq_log) :
          conn[fd].finished /\ conn[fd].closes_wrk = 1

C13_WorkerExitsOnShutdown ==
    [][\A w \in Workers :
          (pc[w] = "deq_ret" /\ ret[w] < 0 /\ pc'[w] # pc[w]) => pc'[w] = "exited"]_vars

\* C14: unconditional close. Every descriptor a worker dequeued is closed by
\* that worker exactly once, after connection_handle has returned and whatever
\* it returned: the step that follows the return is the close, and no worker
\* lets go of a descriptor without having closed it.
C14_UnconditionalClose ==
    /\ [](\A fd \in Range(deq_log) :
            LET holders == {w \in Workers : fdv[w] = fd}
            IN  /\ conn[fd].closes_wrk <= 1
                /\ conn[fd].closes_wrk = 1 => conn[fd].finished
                /\ conn[fd].finished => conn[fd].result \in {0, -1}
                /\ holders = {} => (conn[fd].finished /\ conn[fd].closes_wrk = 1))
    /\ [][\A w \in Workers :
            (pc[w] = "close" /\ pc'[w] # "close")
               => /\ conn[fdv[w]].finished
                  /\ conn'[fdv[w]].closes_wrk = conn[fdv[w]].closes_wrk + 1
                  /\ conn'[fdv[w]].state = "closed"]_vars

\* workers have closed two descriptors: one after connection_handle returned
\* -1, the other after it returned 0 or after it returned -1 for another reason
\* (the first on a failed read, the second on a failed send)
C14_Witness ==
    \E f1, f2 \in Fds :
        /\ conn[f1].closes_wrk = 1 /\ conn[f1].result = -1
        /\ conn[f2].closes_wrk = 1
        /\ f1 # f2
        /\ \/ conn[f2].result = 0
           \/ (conn[f1].resp = NoResp /\ conn[f2].result = -1 /\ conn[f2].resp # NoResp)

\* C15: connection-local errors are isolated. A step of connection_handle
\* changes nothing but its own connection; after a connection_handle that
\* returned -1 the worker closes the descriptor and is back at the head of its
\* loop, the queue and the pool untouched; a worker leaves its loop only when
\* the pool is shut down.
C15_ErrorsIsolated ==
    /\ [](\A w \in Workers : pc[w] = "exited" => pool_shutdown)
    /\ [][\A w \in Workers :
            /\ (pc[w] \in {"handle", "respond"} /\ pc'[w] # pc[w])
                  => /\ pc'[w] \in {"respond", "close"}
                     /\ UNCHANGED <<qvars, pool_shutdown, threads, g_running>>
                     /\ \A w2 \in Workers \ {w} : pc'[w2] = pc[w2]
                     /\ \A fd \in Fds \ {fdv[w]} : conn'[fd] = conn[fd]
            /\ (pc[w] = "close" /\ conn[fdv[w]].result = -1 /\ pc'[w] # pc[w])
                  => /\ pc'[w] = "loop"
                     /\ UNCHANGED <<qvars, pool_shutdown, threads, g_running>>
                     /\ \A w2 \in Workers \ {w} : pc'[w2] = pc[w2]]_vars

\* the only worker of the pool served a connection to the end after
\* connection_handle had returned -1 on the connection before it
C15_Witness ==
    \E w \in Workers, f1, f2 \in Fds :
        /\ Started = {w}
        /\ conn[f1].result = -1 /\ conn[f1].closes_wrk = 1
        /\ f1 \in conn[f2].done_before
        /\ conn[f2].finished /\ conn[f2].result = 0 /\ conn[f2].closes_wrk = 1

\* C16: partial pool startup is tolerated. thread_pool_start returns success
\* whichever pthread_create calls failed, a slot holds a thread exactly when
\* its worker was started, and thread_pool_shutdown has, when it returns,
\* called pthread_join on exactly the started slots, the failed joins included,
\* every successfully joined worker having terminated.
C16_PartialStartup ==
    /\ pc[Main] # "aborted"
    /\ pc[Main] # "start" => \A w \in Workers : threads[w] <=> pc[w] # "unstarted"
    /\ pc[Main] \in {"start", "loop", "enq_call", "enq_wait", "enq_ret",
                     "sd_flag", "sd_queue", "join"} => joins = NoJoins
    /\ pc[Main] = "q_destroy" =>
          /\ joins.tried = Started
          /\ joins.ok \subseteq joins.tried
          /\ \A w \in joins.ok : pc[w] = "exited"

\* thread_pool_shutdown has returned for a pool in which one pthread_create
\* failed and one pthread_join failed
C16_Witness ==
    /\ pc[Main] = "q_destroy"
    /\ Started # {} /\ Started # Workers
    /\ joins.tried = Started
    /\ joins.ok # joins.tried

\* C17: thread-creation failure during pool startup is process-fatal. When
\* thread_pool_start could create no worker thread, main aborts the startup:
\* it never goes on to the accept loop.
C17_StartFailureFatal ==
    (pc[Main] # "start" /\ Started = {}) => pc[Main] = "aborted"

\* main is inside the accept loop
InAcceptLoop ==
    pc[Main] \in {"loop", "accept", "accept_err", "enq_call", "enq_wait", "enq_ret"}

C20_AcceptErrorsRetried ==
    /\ [](signals = 0 => InAcceptLoop)
    /\ [][(pc[Main] = "accept_err" /\ g_running # 0 /\ pc'[Main] # "accept_err")
            => /\ pc'[Main] = "loop"
               /\ UNCHANGED <<qvars, fdv, ret, waited, poolvars, mainvars, next_fd,
                              conn, logvars>>]_vars

\* listener_accept has failed with no shutdown requested, after a connection
\* was accepted and enqueued and while another client can still connect
C20_Witness ==
    /\ pc[Main] = "accept_err"
    /\ g_running # 0 /\ signals = 0
    /\ enq_log # <<>>
    /\ next_fd <= MaxConns

\* ------------------------------------------------------------------- C21
\* C21: shutdown runs top-down.  The queue is shut down only after main has
\* left the accept loop; the queue and the listener are destroyed only after
\* the pool was flagged, the queue shut down and every started worker has
\* exited (been joined); no enqueue happens once the queue is shut down; and
\* after task_queue_destroy no thread touches the queue any more.
QueueDestroyed == pc[Main] \in {"l_destroy", "done"}

C21_AcceptStopsFirst ==
    (pool_shutdown \/ q_shutdown) => ~InAcceptLoop

C21_DestroyAfterJoin ==
    pc[Main] \in {"q_destroy", "l_destroy", "done"} =>
        /\ pool_shutdown
        /\ q_shutdown
        /\ \A w \in Started : pc[w] = "exited"

C21_NoLateQueueUse ==
    /\ q_shutdown => enq_log' = enq_log
    /\ QueueDestroyed =>
          /\ UNCHANGED <<q_list, q_count, q_waiting, enq_log, deq_log>>
          /\ \A w \in Workers : pc'[w] = pc[w]

MAX_HEADERS                == 64
MAX_URI_LENGTH             == 2048
MAX_HEADER_NAME_LENGTH     == 256
MAX_HEADER_VALUE_LENGTH    == 8192
MAX_IDEMPOTENCY_KEY_LENGTH == 256
MAX_REQUEST_BODY_SIZE      == 1024 * 1024
HTTP_METHOD_UNKNOWN        == 0
HTTP_METHOD_POST           == 2
HTTP_METHOD_PUT            == 3
HTTP_VERSION_UNKNOWN       == 0
HTTP_VERSION_1_0           == 1
HTTP_VERSION_1_1           == 2

\* the method names in the order of http_method_t (HTTP_METHOD_GET = 1, ...)
MethodNames == <<"GET", "POST", "PUT", "DELETE", "HEAD", "OPTIONS", "PATCH">>

\* http_string_to_method: strcmp against each name, HTTP_METHOD_UNKNOWN otherwise
HttpStringToMethod(method_str) ==
    IF \E i \in DOMAIN MethodNames : MethodNames[i] = method_str
    THEN CHOOSE i \in DOMAIN MethodNames : MethodNames[i] = method_str
    ELSE HTTP_METHOD_UNKNOWN

\* http_method_to_string
HttpMethodToString(method) ==
    IF method \in DOMAIN MethodNames THEN MethodNames[method] ELSE "UNKNOWN"

\* strlen(line) of a request line given as its space-separated tokens (single
\* spaces between them)
RECURSIVE LineLen(_)
LineLen(tokens) ==
    IF tokens = <<>> THEN 0
    ELSE Len(Head(tokens)) + (IF Len(tokens) > 1 THEN 1 ELSE 0) + LineLen(Tail(tokens))

\* parse_request_line.  tokens is what strtok_r(.., " ", ..) yields in turn:
\* the method and the version as strings, the URI as its characters.  The
\* request keeps what was stored before a failing check.
ParseRequestLine(request, tokens) ==
    LET Fail(req) == [rc |-> -1, request |-> req]
        r1 == [request EXCEPT !.method = HttpStringToMethod(tokens[1])]
        r2 == [r1 EXCEPT !.uri = tokens[2]]
    IN  IF LineLen(tokens) >= MAX_URI_LENGTH + 256 THEN Fail(request)
        ELSE IF Len(tokens) < 1 THEN Fail(request)
        ELSE IF Len(tokens) < 2 THEN Fail(r1)
        ELSE IF tokens[2][1] # "/" THEN Fail(r1)
        ELSE IF Len(tokens[2]) >= MAX_URI_LENGTH THEN Fail(r1)
        ELSE IF Len(tokens) < 3 THEN Fail(r2)
        ELSE IF tokens[3] = "HTTP/1.1"
             THEN [rc |-> 0, request |-> [r2 EXCEPT !.version = HTTP_VERSION_1_1]]
        ELSE IF tokens[3] = "HTTP/1.0"
             THEN [rc |-> 0, request |-> [r2 EXCEPT !.version = HTTP_VERSION_1_0]]
        ELSE Fail([r2 EXCEPT !.version = HTTP_VERSION_UNKNOWN])

\* tolower over the header names that occur
ToLower(name) ==
    CASE name = "X-Idempotency-Key" -> "x-idempotency-key"
      [] name = "Content-Length"    -> "content-length"
      [] name = "Host"              -> "host"
      [] OTHER                      -> name

\* strcasecmp(a, b) == 0
StrCaseEq(a, b) == ToLower(a) = ToLower(b)

DigitValue ==
    [c \in {"0", "1", "2", "3", "4", "5", "6", "7", "8", "9"} |->
        CASE c = "0" -> 0 [] c = "1" -> 1 [] c = "2" -> 2 [] c = "3" -> 3
          [] c = "4" -> 4 [] c = "5" -> 5 [] c = "6" -> 6 [] c = "7" -> 7
          [] c = "8" -> 8 [] c = "9" -> 9]

\* Every unsigned long of 2^30 or more is represented by SIZE_TOP: the
\* program compares these values with 0 and MAX_REQUEST_BODY_SIZE only.
SIZE_TOP == 2^30

\* strtoul, the digits: the value read so far and the text that follows them
RECURSIVE StrtoulDigits(_, _)
StrtoulDigits(chars, acc) ==
    IF chars = <<>> \/ Head(chars) \notin DOMAIN DigitValue
    THEN [value |-> acc, rest |-> chars]
    ELSE LET d == DigitValue[Head(chars)]
         IN  StrtoulDigits(Tail(chars),
                           IF acc > (SIZE_TOP - d) \div 10 THEN SIZE_TOP
                           ELSE acc * 10 + d)

\* strtoul(value, &endptr, 10) on text without leading blanks (the value is
\* trimmed): an optional '+' or '-', then the digits; without a digit nothing
\* is converted and endptr is the text itself; after '-' the value is negated
\* as an unsigned long, ULONG_MAX + 1 - n for n > 0 (n below 2^30 here)
Strtoul(chars) ==
    LET signed == chars # <<>> /\ Head(chars) \in {"+", "-"}
        digits == StrtoulDigits(IF signed THEN Tail(chars) ELSE chars, 0)
        none   == digits.rest = (IF signed THEN Tail(chars) ELSE chars)
    IN  IF none THEN [value |-> 0, rest |-> chars]
        ELSE IF signed /\ Head(chars) = "-" /\ digits.value > 0
        THEN [value |-> SIZE_TOP, rest |-> digits.rest]
        ELSE digits

\* the text kept in a buffer of the given size: longer text is cut
Truncate(chars, size) ==
    IF Len(chars) >= size THEN SubSeq(chars, 1, size - 1) ELSE chars

\* parse_headers, one stored header line: the special headers are picked up
StoreHeader(request, name, value) ==
    LET stored == Truncate(value, MAX_HEADER_VALUE_LENGTH)
        conv   == Strtoul(stored)
        r1 == IF StrCaseEq(name, "X-Idempotency-Key")
              THEN [request EXCEPT
                      !.idempotency_key = Truncate(stored, MAX_IDEMPOTENCY_KEY_LENGTH),
                      !.has_idempotency_key = TRUE]
              ELSE request
        r2 == IF StrCaseEq(name, "Content-Length")
              THEN [r1 EXCEPT !.content_length =
                                  IF conv.rest # <<>> THEN 0 ELSE conv.value]
              ELSE r1
    IN  [r2 EXCEPT !.headers = Append(@, [name |-> name, value |-> stored]),
                   !.header_count = @ + 1]

\* a parse_headers that tests header_count > MAX_HEADERS before storing
RECURSIVE ParseHeaderLinesOneMore(_, _)
ParseHeaderLinesOneMore(request, lines) ==
    IF lines = <<>> THEN [rc |-> 0, request |-> request]
    ELSE LET line == Head(lines)
         IN  IF ~line.colon \/ line.name = ""
             THEN ParseHeaderLinesOneMore(request, Tail(lines))
             ELSE IF Len(line.name) >= MAX_HEADER_NAME_LENGTH
                     \/ request.header_count > MAX_HEADERS
             THEN [rc |-> -1, request |-> request]
             ELSE ParseHeaderLinesOneMore(
                      StoreHeader(request, line.name, line.value), Tail(lines))

\* parse_headers, the loop over the lines of the header section.  A line is
\* [colon, name, value]: whether it has a ':', and the trimmed text on either
\* side of it.
RECURSIVE ParseHeaderLines(_, _)
ParseHeaderLines(request, lines) ==
    IF lines = <<>> THEN [rc |-> 0, request |-> request]
    ELSE LET line == Head(lines)
         IN  IF ~line.colon \/ line.name = ""
             THEN ParseHeaderLines(request, Tail(lines))
             ELSE IF Len(line.name) >= MAX_HEADER_NAME_LENGTH
                     \/ request.header_count >= MAX_HEADERS
             THEN [rc |-> -1, request |-> request]
             ELSE ParseHeaderLines(StoreHeader(request, line.name, line.value),
                                   Tail(lines))

\* parse_headers: the fields are reset, then the section is copied (strdup)
\* and parsed
ParseHeaders(request, lines, strdup_ok) ==
    LET reset == [request EXCEPT !.headers = <<>>,
                                 !.header_count = 0, !.content_length = 0,
                                 !.has_idempotency_key = FALSE,
                                 !.idempotency_key = <<>>]
    IN  IF ~strdup_ok THEN [rc |-> -1, request |-> reset]
        ELSE ParseHeaderLines(reset, lines)

\* http_request_free
HttpRequestFree(request) ==
    [request EXCEPT !.body_length = 0, !.content_length = 0,
                    !.headers = <<>>,
                    !.header_count = 0, !.has_idempotency_key = FALSE]

\* parse_request_body reads content_length further bytes from the socket: the
\* body has exactly that length or the call fails
ParseRequestBody(request, read_ok) ==
    IF read_ok
    THEN [rc |-> 0, request |-> [request EXCEPT !.body_length = request.content_length]]
    ELSE [rc |-> -1, request |-> request]

\* ==================================================== HTTP response builder
HTTP_NOT_FOUND         == 404
HTTP_CONFLICT          == 409
HTTP_PAYLOAD_TOO_LARGE == 413
HTTP_INTERNAL_ERROR    == 500
HTTP_NOT_IMPLEMENTED   == 501

\* status_code_to_message
StatusCodeToMessage(status_code) ==
    CASE status_code = HTTP_OK                -> "OK"
      [] status_code = HTTP_BAD_REQUEST       -> "Bad Request"
      [] status_code = HTTP_NOT_FOUND         -> "Not Found"
      [] status_code = HTTP_CONFLICT          -> "Conflict"
      [] status_code = HTTP_PAYLOAD_TOO_LARGE -> "Payload Too Large"
      [] status_code = HTTP_UNPROCESSABLE     -> "Unprocessable Entity"
      [] status_code = HTTP_INTERNAL_ERROR    -> "Internal Server Error"
      [] status_code = HTTP_NOT_IMPLEMENTED   -> "Not Implemented"
      [] OTHER                                -> "Unknown"

\* http_response_init: a failed strdup leaves every field but the first two
\* as it was
HttpResponseInit(response, status_code, strdup_ok) ==
    IF ~strdup_ok
    THEN [rc |-> -1,
          response |-> [response EXCEPT !.status_code = status_code,
                                        !.status_message = NULL]]
    ELSE [rc |-> 0,
          response |-> [status_code |-> status_code,
                        status_message |-> StatusCodeToMessage(status_code),
                        headers |-> <<>>, body |-> NoBytes, body_length |-> 0]]

\* http_response_add_header
HttpResponseAddHeader(response, name, value, alloc_ok) ==
    IF ~alloc_ok THEN [rc |-> -1, response |-> response]
    ELSE [rc |-> 0,
          response |-> [response EXCEPT !.headers = Append(@, <<name, value>>)]]

\* http_response_set_body: the old body is dropped, then length bytes of
\* body are copied
HttpResponseSetBody(response, body, length, malloc_ok) ==
    LET cleared == IF response.body # NoBytes
                   THEN [response EXCEPT !.body = NoBytes, !.body_length = 0]
                   ELSE response
    IN  IF body = NoBytes \/ length = 0 THEN [rc |-> 0, response |-> cleared]
        ELSE IF ~malloc_ok THEN [rc |-> -1, response |-> cleared]
        ELSE [rc |-> 0,
              response |-> [cleared EXCEPT !.body = SubSeq(body, 1, length),
                                           !.body_length = length]]

\* http_response_free
HttpResponseFree(response) ==
    [response EXCEPT !.status_message = NULL, !.headers = <<>>,
                     !.body = NoBytes, !.body_length = 0]

\* the error body of http_response_create_error,
\* {"error":"%s","status":%d,"message":"%s"}, as its parts
ErrorBodyParts(status_code, error_message) ==
    <<"error", error_message, "status", status_code,
      "message", StatusCodeToMessage(status_code)>>

\* the allocation of http_response_create_error that fails, if any
AllocFailures == {"none", "init", "header", "body"}

\* http_response_create_error
HttpResponseCreateError(response, status_code, error_message, fail_at) ==
    LET i == HttpResponseInit(response, status_code, fail_at # "init")
        a == HttpResponseAddHeader(i.response, "Content-Type", "application/json",
                                   fail_at # "header")
        body == ErrorBodyParts(status_code, error_message)
        b == HttpResponseSetBody(a.response, body, Len(body), fail_at # "body")
    IN  IF i.rc # 0 THEN [rc |-> -1, response |-> i.response]
        ELSE IF a.rc # 0 THEN [rc |-> -1, response |-> HttpResponseFree(a.response)]
        ELSE IF b.rc # 0 THEN [rc |-> -1, response |-> HttpResponseFree(b.response)]
        ELSE [rc |-> 0, response |-> b.response]

\* http_response_serialize with the caller's headers ahead of Content-Length
HttpResponseSerializeHeadersFirst(response, reason, date) ==
    <<<<"HTTP/1.1", response.status_code, reason>>,
      <<"Server", "C-HTTP-Payment-Server/1.0">>,
      <<"Date", date>>>>
    \o response.headers
    \o <<<<"Content-Length", response.body_length>>, <<"">>>>
    \o (IF response.body # NoBytes /\ response.body_length > 0
        THEN [i \in 1..response.body_length |-> <<response.body[i]>>]
        ELSE <<>>)

\* http_response_serialize, the buffer it returns: the status line, Server,
\* Date, Content-Length, the caller's headers, the blank line and the body,
\* one element per line and per body byte.  reason is what "%s" printed for
\* status_message.  The snprintf size checks cannot fail for a head shorter
\* than 1024 bytes, which every response built here has.
HttpResponseSerialize(response, reason, date) ==
    <<<<"HTTP/1.1", response.status_code, reason>>,
      <<"Server", "C-HTTP-Payment-Server/1.0">>,
      <<"Date", date>>,
      <<"Content-Length", response.body_length>>>>
    \o response.headers
    \o <<<<"">>>>
    \o (IF response.body # NoBytes /\ response.body_length > 0
        THEN [i \in 1..response.body_length |-> <<response.body[i]>>]
        ELSE <<>>)

\* ================================================ connection_handle, in steps
\* sizeof(response_body) in Step 7
RESPONSE_BODY_SIZE == 1024

DigitChars == <<"0", "1", "2", "3", "4", "5", "6", "7", "8", "9">>

\* the decimal text of n, as a client writes it and as "%zu" prints it
RECURSIVE Decimal(_)
Decimal(n) ==
    IF n < 10 THEN <<DigitChars[n + 1]>>
    ELSE Decimal(n \div 10) \o <<DigitChars[(n % 10) + 1]>>

\* the requests the clients send
ShortUri   == <<"/", "x">>
PaymentUri == <<"/", "p", "a", "y">>
LongUri    == [i \in 1..1000 |-> IF i = 1 THEN "/" ELSE "a"]

RequestLines ==
    { <<"GET", ShortUri, "HTTP/1.1">>,
      <<"GET", ShortUri, "HTTP/1.0">>,
      <<"POST", PaymentUri, "HTTP/1.1">>,
      <<"PUT", ShortUri, "HTTP/1.1">>,
      <<"BREW", ShortUri, "HTTP/1.1">>,
      <<"GET", ShortUri, "HTTP/9.9">>,
      <<"POST", PaymentUri, "HTTP/2.0">>,
      <<"GET", <<"x">>, "HTTP/1.1">>,
      <<"GET", ShortUri>>,
      <<"GET">>,
      <<>>,
      <<"GET", ShortUri, "HTTP/1.1", "junk">>,
      <<"GET", LongUri, "HTTP/1.1">> }

HeaderLine(name, value) == [colon |-> TRUE, name |-> name, value |-> value]
HostLine    == HeaderLine("Host", <<"h">>)
KeyLine     == HeaderLine("X-Idempotency-Key", <<"k", "1">>)
LengthLine(value) == HeaderLine("Content-Length", value)
NoColonLine == [colon |-> FALSE, name |-> "", value |-> <<>>]

HeaderSections ==
    { <<>>,
      <<HostLine>>,
      <<KeyLine>>,
      <<NoColonLine, HostLine>>,
      <<LengthLine(Decimal(5))>>,
      <<HeaderLine("x-idempotency-key", <<"k", "2">>), LengthLine(Decimal(5))>>,
      <<LengthLine(<<"1", "2", "a", "b", "c">>), KeyLine>>,
      <<LengthLine(Decimal(MAX_REQUEST_BODY_SIZE))>>,
      <<KeyLine, LengthLine(Decimal(MAX_REQUEST_BODY_SIZE))>>,
      <<LengthLine(Decimal(MAX_REQUEST_BODY_SIZE + 1))>>,
      <<KeyLine, LengthLine(Decimal(MAX_REQUEST_BODY_SIZE + 1))>>,
      <<LengthLine(Decimal(2 * MAX_REQUEST_BODY_SIZE)), HostLine>> }

\* What one recv() stores.  terminated: the bytes contain "\r\n\r\n"; line:
\* the tokens of the text before the first "\r\n"; headers: the lines between
\* that "\r\n" and the terminator.
Buffers == [terminated : BOOLEAN, line : RequestLines, headers : HeaderSections]

\* a Step 2 that finds a terminator in every buffer
HasHeadersEndAlways(buffer) == TRUE
\* strstr(buffer, "\r\n\r\n") != NULL
HasHeadersEnd(buffer) == buffer.terminated

\* strstr(buffer, "\r\n") != NULL once the terminator has been overwritten by
\* '\0': a request line directly followed by the blank line has none
HasLineEnd(buffer) == buffer.headers # <<>>

\* a Step 7 that formats every payment body with one and the same key
ResponseBodyPartsOneKey(request) ==
    IF request.method = HTTP_METHOD_POST /\ request.has_idempotency_key
    THEN <<"success", "Payment processed", <<"k", "1">>, request.body_length>>
    ELSE <<"success", "Request received", HttpMethodToString(request.method),
           request.uri>>
\* Step 7: the parts of the body snprintf writes
ResponseBodyParts(request) ==
    IF request.method = HTTP_METHOD_POST /\ request.has_idempotency_key
    THEN <<"success", "Payment processed", request.idempotency_key,
           request.body_length>>
    ELSE <<"success", "Request received", HttpMethodToString(request.method),
           request.uri>>

\* Step 7: the value snprintf returns, the length of the formatted text
ResponseBodyLen(request) ==
    IF request.method = HTTP_METHOD_POST /\ request.has_idempotency_key
    THEN 84 + Len(request.idempotency_key) + Len(Decimal(request.body_length))
    ELSE 70 + Len(HttpMethodToString(request.method)) + Len(request.uri)

\* what printf's "%s" makes of status_message: passing NULL is undefined, a
\* build either prints "(null)" or faults
PrintfString(status_message) ==
    IF status_message = NULL THEN {"(null)", "fault"} ELSE {status_message}

H(w) == conn[fdv[w]].h

hrest == <<qvars, fdv, ret, waited, poolvars, mainvars, next_fd, logvars>>

\* the locals become h2 and control moves to label
HandleGoto(w, label, h2) ==
    /\ conn' = [conn EXCEPT ![fdv[w]].h = h2]
    /\ pc' = [pc EXCEPT ![w] = label]
    /\ UNCHANGED hrest

\* http_response_create_error(&response, status, message) with its result
\* ignored; response_initialized = 1; goto send_response;
SendError(w, h1, status_code, error_message) ==
    \E fail_at \in AllocFailures :
        HandleGoto(w, "h_serialize",
            [h1 EXCEPT !.response = HttpResponseCreateError(
                                        h1.response, status_code, error_message,
                                        fail_at).response,
                       !.response_initialized = 1,
                       !.alloc_failed = @ \/ fail_at # "none"])

\* errno values recv() and send() fail with: the ones connection_read and
\* connection_write tell apart, and one of the others
RecvErrors == {"EAGAIN", "EINTR", "ECONNRESET"}
SendErrors == {"EAGAIN", "EINTR", "EPIPE", "ECONNRESET"}
TransientErrors == {"EAGAIN", "EINTR"}

\* Step 1: connection_read (recv fails with some errno: -1; recv returns 0: 0);
\* bytes_read <= 0 returns -1.  A read that returns data is recorded with
\* bytes_read = 1, whatever the count.  bufs: what the client may have sent.
Step1ReadFrom(w, bufs) ==
    /\ pc[w] = "handle"
    /\ \/ /\ \E bytes_read \in {-1, 0} :
             \E errno \in IF bytes_read < 0 THEN RecvErrors ELSE {H(w).errno} :
                conn' = [conn EXCEPT ![fdv[w]].handles = @ + 1,
                                     ![fdv[w]].h.bytes_read = bytes_read,
                                     ![fdv[w]].h.errno = errno,
                                     ![fdv[w]].done_before = Finished,
                                     ![fdv[w]].finished = TRUE,
                                     ![fdv[w]].result = -1]
          /\ pc' = [pc EXCEPT ![w] = "close"]
       \/ /\ \E buffer \in bufs :
                conn' = [conn EXCEPT ![fdv[w]].handles = @ + 1,
                                     ![fdv[w]].done_before = Finished,
                                     ![fdv[w]].h.buffer = buffer,
                                     ![fdv[w]].h.bytes_read = 1]
          /\ pc' = [pc EXCEPT ![w] = "h_frame"]
    /\ UNCHANGED hrest

Step1Read(w) == Step1ReadFrom(w, Buffers)

\* Steps 2 and 3, up to the call of parse_request_line
Step2Framing(w) ==
    /\ pc[w] = "h_frame"
    /\ IF ~HasHeadersEnd(H(w).buffer)
       THEN SendError(w, H(w), HTTP_BAD_REQUEST, "Malformed HTTP request")
       ELSE IF ~HasLineEnd(H(w).buffer)
       THEN SendError(w, H(w), HTTP_BAD_REQUEST, "Malformed request line")
       ELSE HandleGoto(w, "h_line", H(w))

\* a Step 3 that lets a request through whatever parse_request_line returned
Step3RequestLineLenient(w) ==
    /\ pc[w] = "h_line"
    /\ LET p  == ParseRequestLine(H(w).request, H(w).buffer.line)
           h1 == [H(w) EXCEPT !.request = p.request, !.line_rc = p.rc]
       IN  HandleGoto(w, "h_headers", h1)

\* Step 3: parse_request_line
Step3RequestLine(w) ==
    /\ pc[w] = "h_line"
    /\ LET p  == ParseRequestLine(H(w).request, H(w).buffer.line)
           h1 == [H(w) EXCEPT !.request = p.request, !.line_rc = p.rc]
       IN  IF p.rc # 0
           THEN SendError(w, h1, HTTP_BAD_REQUEST, "Invalid request line")
           ELSE HandleGoto(w, "h_headers", h1)

\* Step 4: parse_headers
Step4Headers(w) ==
    /\ pc[w] = "h_headers"
    /\ \E strdup_ok \in BOOLEAN :
          LET p  == ParseHeaders(H(w).request, H(w).buffer.headers, strdup_ok)
              h1 == [H(w) EXCEPT !.request = p.request, !.headers_rc = p.rc,
                                 !.alloc_failed = @ \/ ~strdup_ok]
          IN  IF p.rc # 0
              THEN SendError(w, h1, HTTP_BAD_REQUEST, "Invalid headers")
              ELSE HandleGoto(w, "h_body", h1)

\* a Step 5 without the size check
BodyTooLargeNever(content_length) == FALSE
\* the size check of Step 5 with >= in place of >
BodyTooLargeAtLimit(content_length) == content_length >= MAX_REQUEST_BODY_SIZE
\* if (request.content_length > MAX_REQUEST_BODY_SIZE)
BodyTooLarge(content_length) == content_length > MAX_REQUEST_BODY_SIZE

\* Step 5: the size check and parse_request_body
Step5Body(w) ==
    /\ pc[w] = "h_body"
    /\ LET request == H(w).request
       IN  IF request.content_length > 0
           THEN IF BodyTooLarge(request.content_length)
                THEN SendError(w, H(w), HTTP_PAYLOAD_TOO_LARGE,
                               "Request body exceeds 1MB limit")
                ELSE \E read_ok \in BOOLEAN :
                        LET p  == ParseRequestBody(request, read_ok)
                            h1 == [H(w) EXCEPT !.request = p.request,
                                               !.body_calls = @ + 1]
                        IN  IF p.rc # 0
                            THEN SendError(w, h1, HTTP_BAD_REQUEST,
                                           "Failed to read request body")
                            ELSE HandleGoto(w, "h_key", [h1 EXCEPT !.parsed = TRUE])
           ELSE HandleGoto(w, "h_key", [H(w) EXCEPT !.parsed = TRUE])

\* a Step 6 that asks for the key on every method but POST
NeedsKeyNotPost(request) ==
    request.method # HTTP_METHOD_POST /\ ~request.has_idempotency_key
\* if (request.method == HTTP_METHOD_POST && !request.has_idempotency_key)
NeedsKey(request) ==
    request.method = HTTP_METHOD_POST /\ ~request.has_idempotency_key

\* Step 6: POST requests must carry the idempotency key
Step6KeyCheck(w) ==
    /\ pc[w] = "h_key"
    /\ IF NeedsKey(H(w).request)
       THEN SendError(w, H(w), HTTP_UNPROCESSABLE,
                      "POST requests require X-Idempotency-Key header")
       ELSE HandleGoto(w, "h_build", H(w))

\* Step 7: the success response.  A failing http_response_init ends the call
\* with -1; the results of http_response_add_header and
\* http_response_set_body are not looked at.
Step7Build(w) ==
    /\ pc[w] = "h_build"
    /\ \E init_ok \in BOOLEAN, header_ok \in BOOLEAN, body_ok \in BOOLEAN :
          LET i  == HttpResponseInit(H(w).response, HTTP_OK, init_ok)
              a  == HttpResponseAddHeader(i.response, "Content-Type",
                                          "application/json", header_ok)
              b  == HttpResponseSetBody(a.response,
                                        ResponseBodyParts(H(w).request),
                                        Len(ResponseBodyParts(H(w).request)),
                                        body_ok)
              failed == H(w).alloc_failed \/ ~init_ok \/ ~header_ok \/ ~body_ok
          IN  IF i.rc # 0
              THEN /\ conn' = [conn EXCEPT
                                 ![fdv[w]].handler_runs = @ + 1,
                                 ![fdv[w]].result = -1,
                                 ![fdv[w]].h.response = i.response,
                                 ![fdv[w]].h.alloc_failed = TRUE]
                   /\ pc' = [pc EXCEPT ![w] = "h_cleanup"]
              ELSE IF ResponseBodyLen(H(w).request) >= RESPONSE_BODY_SIZE
              THEN \E fail_at \in AllocFailures :
                   /\ conn' = [conn EXCEPT
                                 ![fdv[w]].handler_runs = @ + 1,
                                 ![fdv[w]].h.response =
                                     HttpResponseCreateError(a.response,
                                         HTTP_INTERNAL_ERROR,
                                         "Failed to format response",
                                         fail_at).response,
                                 ![fdv[w]].h.response_initialized = 1,
                                 ![fdv[w]].h.alloc_failed =
                                     ~header_ok \/ fail_at # "none" \/ @]
                   /\ pc' = [pc EXCEPT ![w] = "h_serialize"]
              ELSE /\ conn' = [conn EXCEPT
                                 ![fdv[w]].handler_runs = @ + 1,
                                 ![fdv[w]].h.response = b.response,
                                 ![fdv[w]].h.response_initialized = 1,
                                 ![fdv[w]].h.alloc_failed = failed]
                   /\ pc' = [pc EXCEPT ![w] = "h_serialize"]
    /\ UNCHANGED hrest

\* Step 8: http_response_serialize; NULL ends the call with -1
Step8Serialize(w) ==
    /\ pc[w] = "h_serialize"
    /\ \E malloc_ok \in BOOLEAN, reason \in PrintfString(H(w).response.status_message) :
          LET response == H(w).response
              bytes == HttpResponseSerialize(response, reason, "now")
              sent  == [status |-> response.status_code,
                        body |-> response.body]
          IN  IF ~malloc_ok
              THEN /\ conn' = [conn EXCEPT ![fdv[w]].resp = sent,
                                           ![fdv[w]].result = -1,
                                           ![fdv[w]].h.alloc_failed = TRUE]
                   /\ pc' = [pc EXCEPT ![w] = "h_cleanup"]
              ELSE IF reason = "fault"
              THEN /\ conn' = [conn EXCEPT ![fdv[w]].resp = sent]
                   /\ pc' = [pc EXCEPT ![w] = "fault"]
              ELSE /\ conn' = [conn EXCEPT ![fdv[w]].resp = sent,
                                           ![fdv[w]].h.serialized = bytes,
                                           ![fdv[w]].h.serialized_length = Len(bytes),
                                           ![fdv[w]].h.total_sent = 0]
                   /\ pc' = [pc EXCEPT ![w] = "h_send"]
    /\ UNCHANGED hrest

\* a send loop that does not advance past what was written
SendLoopAdvanceNone(total_sent, bytes_sent) == total_sent
\* total_sent += bytes_sent;
SendLoopAdvance(total_sent, bytes_sent) == total_sent + bytes_sent

\* Step 8, one pass of while (total_sent < serialized_length): connection_write
\* on the unsent remainder; send() takes between 1 and all of the bytes, or
\* fails with some errno: connection_write returns -1, result = -1; break;
Step8Write(w) ==
    /\ pc[w] = "h_send"
    /\ H(w).total_sent < H(w).serialized_length
    /\ \/ \E bytes_sent \in 1..(H(w).serialized_length - H(w).total_sent) :
            HandleGoto(w, "h_send",
                [H(w) EXCEPT
                   !.total_sent = SendLoopAdvance(@, bytes_sent),
                   !.wire = @ \o SubSeq(H(w).serialized, H(w).total_sent + 1,
                                        H(w).total_sent + bytes_sent)])
       \/ /\ \E errno \in SendErrors :
                conn' = [conn EXCEPT ![fdv[w]].result = -1,
                                     ![fdv[w]].h.errno = errno]
          /\ pc' = [pc EXCEPT ![w] = "h_cleanup"]
          /\ UNCHANGED hrest

\* Step 8, the loop condition fails: free(serialized)
Step8SendDone(w) ==
    /\ pc[w] = "h_send"
    /\ ~(H(w).total_sent < H(w).serialized_length)
    /\ HandleGoto(w, "h_cleanup", H(w))

\* Step 9: cleanup and return result
Step9Cleanup(w) ==
    /\ pc[w] = "h_cleanup"
    /\ conn' = [conn EXCEPT
                  ![fdv[w]].finished = TRUE,
                  ![fdv[w]].h.request = HttpRequestFree(@),
                  ![fdv[w]].h.response =
                      IF H(w).response_initialized # 0
                      THEN HttpResponseFree(@) ELSE @]
    /\ pc' = [pc EXCEPT ![w] = "close"]
    /\ UNCHANGED hrest

\* one step of connection_handle or the close that follows it
HandleStep(w) ==
    \/ Step1Read(w)
    \/ Step2Framing(w)
    \/ Step3RequestLine(w)
    \/ Step4Headers(w)
    \/ Step5Body(w)
    \/ Step6KeyCheck(w)
    \/ Step7Build(w)
    \/ Step8Serialize(w)
    \/ Step8Write(w)
    \/ Step8SendDone(w)
    \/ Step9Cleanup(w)
    \/ WorkerClose(w)

\* The pipeline on its own: a worker has taken connection 1 off the queue
\* and calls connection_handle on it.
Handler == "w1"
HandledFd == 1

InitH ==
    /\ q_list = <<>>
    /\ q_count = 0
    /\ q_max = 0
    /\ q_shutdown = FALSE
    /\ q_waiting = {}
    /\ pc = [t \in Threads |-> IF t = Handler THEN "handle"
                              ELSE IF t = Main THEN "loop"
                              ELSE IF t \in Workers THEN "unstarted" ELSE "off"]
    /\ fdv = [t \in Threads |-> IF t = Handler THEN HandledFd ELSE NoFd]
    /\ ret = [t \in Threads |-> 0]
    /\ waited = [t \in Threads |-> FALSE]
    /\ pool_shutdown = FALSE
    /\ synced = [w \in Workers |-> FALSE]
    /\ threads = [w \in Workers |-> w = Handler]
    /\ joins = NoJoins
    /\ g_running = 1
    /\ pipe_bytes = 0
    /\ sig_pc = "none"
    /\ signals = 0
    /\ next_fd = HandledFd + 1
    /\ conn = [fd \in Fds |-> IF fd = HandledFd
                              THEN [NewConn EXCEPT !.state = "open",
                                                   !.opener = Main,
                                                   !.h = NoHandle]
                              ELSE [NewConn EXCEPT !.h = NoHandle]]
    /\ enq_log = <<HandledFd>>
    /\ deq_log = <<HandledFd>>
    /\ dropped = <<>>
    /\ at_shutdown = [set |-> FALSE, list |-> <<>>, deqs |-> 0]

NextH ==
    \/ Step1Read(Handler)
    \/ Step2Framing(Handler)
    \/ Step3RequestLine(Handler)
    \/ Step4Headers(Handler)
    \/ Step5Body(Handler)
    \/ Step6KeyCheck(Handler)
    \/ Step7Build(Handler)
    \/ Step8Serialize(Handler)
    \/ Step8Write(Handler)
    \/ Step8SendDone(Handler)
    \/ Step9Cleanup(Handler)
    \/ WorkerClose(Handler)

SpecH == InitH /\ [][NextH]_vars

FairSpecH == SpecH /\ WF_vars(HandleStep(Handler))

\* ------------------------------------------------ pipeline claims: helpers
\* connection_read stored a request for this connection
HasRead(c) == c.h.bytes_read > 0

\* the send loop was left by a failed connection_write
WriteFailed(c) ==
    c.finished /\ c.h.serialized # NoBytes /\ c.h.total_sent < c.h.serialized_length

\* the body is the JSON error object carrying this status
IsJsonError(body, status) ==
    /\ Len(body) = 6
    /\ body[1] = "error"
    /\ body[3] = "status"
    /\ body[4] = status

\* ------------------------------------------------------------------- C22
\* C22: once connection_read has returned bytes, connection_handle does not
\* return before a response was serialized and, unless a write failed, written
\* in full; and a response with an error status carries the JSON error body
\* with that status.
C22_NeverDropped ==
    \A fd \in Fds :
        LET c == conn[fd]
        IN  (c.finished /\ HasRead(c)) =>
               /\ c.h.serialized # NoBytes
               /\ ~WriteFailed(c) => c.h.wire = c.h.serialized
               /\ c.resp.status # HTTP_OK => IsJsonError(c.resp.body, c.resp.status)

\* ------------------------------------------------------------------- C23
\* an internal failure of Steps 7-8 occurred in the run
FormatFails(c) ==
    /\ c.handler_runs > 0
    /\ c.h.request.method # HTTP_METHOD_POST
    /\ ResponseBodyLen(c.h.request) >= RESPONSE_BODY_SIZE

InternalFailure(c) ==
    \/ c.handler_runs > 0 /\ c.h.response_initialized = 0
    \/ FormatFails(c)
    \/ c.resp # NoResp /\ c.h.serialized = NoBytes

\* C23: when http_response_init fails in Step 7, the body cannot be formatted
\* or http_response_serialize returns NULL, the client is sent a 500 response
\* (in full unless a write fails), and the worker thread does not exit.
C23_InternalFailureIs500 ==
    \A fd \in Fds :
        LET c == conn[fd]
        IN  (c.finished /\ InternalFailure(c)) =>
               /\ c.h.serialized # NoBytes
               /\ c.h.serialized[1][2] = HTTP_INTERNAL_ERROR
               /\ ~WriteFailed(c) => c.h.wire = c.h.serialized
               /\ pc[Handler] # "exited"

\* the received header section has an X-Idempotency-Key line, in any case
CarriesKey(buffer) ==
    \E i \in DOMAIN buffer.headers :
        /\ buffer.headers[i].colon
        /\ buffer.headers[i].name \in {"X-Idempotency-Key", "x-idempotency-key"}

\* The answer of the run is the error response with this status: it is what
\* is handed to the serializer and what the serialized bytes start with, it
\* carries the JSON error body unless an allocation failed while it was
\* built, and the run ends with all of it written unless an allocation or a
\* write failed.
AnsweredWith(c, status) ==
    /\ c.resp # NoResp => c.resp.status = status
    /\ c.h.serialized # NoBytes => c.h.serialized[1][2] = status
    /\ (c.resp # NoResp /\ ~c.h.alloc_failed) => IsJsonError(c.resp.body, status)
    /\ c.finished =>
          \/ c.h.alloc_failed
          \/ WriteFailed(c)
          \/ c.result = 0 /\ c.h.serialized # NoBytes /\ c.h.wire = c.h.serialized

\* the run has ended with this error response written in full
FullyAnswered(c, status) ==
    /\ c.state = "closed"
    /\ c.result = 0
    /\ ~c.h.alloc_failed
    /\ c.h.serialized # NoBytes
    /\ c.h.wire = c.h.serialized
    /\ c.h.serialized[1][2] = status
    /\ IsJsonError(c.resp.body, status)

MalformedFraming(buffer) ==
    \/ ~buffer.terminated
    \/ Len(buffer.line) < 3
    \/ buffer.line[2][1] # "/"

\* C25: a request with malformed framing never reaches Step 7 and is answered
\* with the 400 JSON error response; and a request line whose first three
\* tokens are valid is accepted by parse_request_line although more tokens
\* follow.
C25_MalformedIs400 ==
    \A fd \in Fds :
        LET c == conn[fd]
        IN  HasRead(c) =>
              /\ MalformedFraming(c.h.buffer) =>
                    /\ c.handler_runs = 0
                    /\ AnsweredWith(c, HTTP_BAD_REQUEST)
              /\ ( /\ Len(c.h.buffer.line) > 3
                   /\ c.h.buffer.line[2][1] = "/"
                   /\ c.h.buffer.line[3] \in {"HTTP/1.0", "HTTP/1.1"}
                   /\ c.h.line_rc # 1 ) => c.h.line_rc = 0

C25_Witness ==
    /\ HasRead(conn[HandledFd])
    /\ conn[HandledFd].h.buffer.terminated
    /\ Len(conn[HandledFd].h.buffer.line) = 2
    /\ conn[HandledFd].h.line_rc = -1
    /\ FullyAnswered(conn[HandledFd], HTTP_BAD_REQUEST)

\* ------------------------------------------------------------------- C26
\* the Content-Length line of the received header section announces n bytes
Announces(buffer, n) ==
    \E i \in DOMAIN buffer.headers :
        /\ buffer.headers[i].colon
        /\ buffer.headers[i].name = "Content-Length"
        /\ buffer.headers[i].value = Decimal(n)

\* C26: for a request whose request line and headers parsed, a Content-Length
\* of exactly MAX_REQUEST_BODY_SIZE is not answered with 413 and its body is
\* read by parse_request_body, while a Content-Length of
\* MAX_REQUEST_BODY_SIZE + 1 or more is answered with the 413 JSON error
\* response without parse_request_body ever being called and without Step 7.
C26_BodySizeBound ==
    \A fd \in Fds :
        LET c == conn[fd]
        IN  c.h.headers_rc = 0 =>
              /\ Announces(c.h.buffer, MAX_REQUEST_BODY_SIZE) =>
                    /\ c.resp.status # HTTP_PAYLOAD_TOO_LARGE
                    /\ (c.finished \/ c.resp # NoResp \/ c.h.parsed) => c.h.body_calls = 1
              /\ (\E n \in {MAX_REQUEST_BODY_SIZE + 1, 2 * MAX_REQUEST_BODY_SIZE} :
                      Announces(c.h.buffer, n)) =>
                    /\ c.h.body_calls = 0
                    /\ c.handler_runs = 0
                    /\ ~c.h.parsed
                    /\ AnsweredWith(c, HTTP_PAYLOAD_TOO_LARGE)

C26_Witness ==
    /\ conn[HandledFd].h.headers_rc = 0
    /\ Announces(conn[HandledFd].h.buffer, MAX_REQUEST_BODY_SIZE + 1)
    /\ conn[HandledFd].h.body_calls = 0
    /\ FullyAnswered(conn[HandledFd], HTTP_PAYLOAD_TOO_LARGE)

\* ------------------------------------------------------------------- C27
\* the request line has a version token other than HTTP/1.0 and HTTP/1.1
BadVersion(buffer) ==
    /\ Len(buffer.line) >= 3
    /\ buffer.line[3] \notin {"HTTP/1.0", "HTTP/1.1"}

C27_Rejected ==
    \A fd \in Fds :
        LET c == conn[fd]
        IN  (HasRead(c) /\ BadVersion(c.h.buffer)) =>
               /\ c.h.line_rc # 0
               /\ c.handler_runs = 0
               /\ AnsweredWith(c, HTTP_BAD_REQUEST)

C27_Closed ==
    (HasRead(conn[HandledFd]) /\ BadVersion(conn[HandledFd].h.buffer))
        ~> \/ pc[Handler] = "fault"
           \/ conn[HandledFd].state = "closed" /\ pc[Handler] = "loop"

\* C27: a request whose version token is neither HTTP/1.0 nor HTTP/1.1 is
\* never accepted by parse_request_line, never reaches Step 7 and is answered
\* with the 400 JSON error response; the worker then closes the connection and
\* is back in its loop (unless printing a NULL status message after a failed
\* allocation faults).
C27_UnsupportedVersion == []C27_Rejected /\ C27_Closed

C27_Witness ==
    /\ HasRead(conn[HandledFd])
    /\ BadVersion(conn[HandledFd].h.buffer)
    /\ conn[HandledFd].h.buffer.line[3] = "HTTP/9.9"
    /\ conn[HandledFd].h.line_rc = -1
    /\ FullyAnswered(conn[HandledFd], HTTP_BAD_REQUEST)
    /\ pc[Handler] = "loop"

\* ------------------------------------------------------------------- C28
\* C28: a request whose method token is none of GET, POST, PUT, DELETE, HEAD,
\* OPTIONS, PATCH (and which is otherwise well-formed, so that no other error
\* answer applies) never reaches Step 7 and, no allocation failing, is
\* answered with status 501.
C28_UnsupportedMethodIs501 ==
    \A fd \in Fds :
        LET c == conn[fd]
        IN  (HasRead(c) /\ c.h.parsed /\ ~c.h.alloc_failed
                /\ c.h.buffer.line[1] \notin Range(MethodNames)) =>
               /\ c.handler_runs = 0
               /\ c.resp # NoResp => c.resp.status = HTTP_NOT_IMPLEMENTED

\* ------------------------------------------------------------------- C30
\* what is on the socket is the first total_sent bytes of the serialized
\* response, total_sent never exceeds serialized_length, a run that read a
\* request returns 0 only with every byte sent, and a failed write yields -1
\* while the worker and the pool go on
C30_SendState ==
    \A fd \in Fds :
        LET c == conn[fd]
        IN  /\ c.h.total_sent <= c.h.serialized_length
            /\ c.h.wire = SubSeq(c.h.serialized, 1, c.h.total_sent)
            /\ (c.finished /\ HasRead(c) /\ c.result = 0) =>
                  /\ c.h.serialized # NoBytes
                  /\ c.h.total_sent = c.h.serialized_length
                  /\ c.h.wire = c.h.serialized
            /\ WriteFailed(c) =>
                  /\ c.result = -1
                  /\ pc[Handler] \in {"close", "loop"}
                  /\ ~pool_shutdown

\* a pass of the loop sends some of the remainder; the loop is left only
\* with everything sent or by a failed write
C30_SendStep ==
    LET h == conn[HandledFd].h
    IN  pc[Handler] = "h_send" =>
          \/ /\ pc'[Handler] = "h_send"
             /\ conn'[HandledFd].h.total_sent > h.total_sent
          \/ /\ pc'[Handler] = "h_cleanup"
             /\ h.total_sent = h.serialized_length
             /\ conn'[HandledFd].result = conn[HandledFd].result
          \/ /\ pc'[Handler] = "h_cleanup"
             /\ h.total_sent < h.serialized_length
             /\ conn'[HandledFd].result = -1

\* C30: the send loop writes the unsent remainder until total_sent equals
\* serialized_length or a write fails; total_sent never exceeds
\* serialized_length; connection_handle returns 0 only if every serialized
\* byte was sent; a failed write gives -1 for this connection and leaves the
\* worker running; and with every successful write sending at least one byte
\* the loop terminates.
C30_PartialWrites ==
    /\ []C30_SendState
    /\ [][C30_SendStep]_vars
    /\ (pc[Handler] = "h_send") ~> (pc[Handler] # "h_send")

C30_Witness ==
    /\ pc[Handler] = "h_send"
    /\ conn[HandledFd].h.total_sent > 1
    /\ conn[HandledFd].h.total_sent < conn[HandledFd].h.serialized_length
    /\ conn[HandledFd].h.wire = SubSeq(conn[HandledFd].h.serialized, 1,
                                       conn[HandledFd].h.total_sent)

\* ============================================ the response API on its own
\* A caller builds responses through the http_response functions and
\* serializes them; it frees a serialized buffer before it touches the
\* response again.
MaxHeaders == 2

Caller == "p1"

ApiStatuses == {HTTP_OK, HTTP_NOT_FOUND, 299}
ApiHeaders  == {<<"Content-Type", "application/json">>, <<"X-Trace", "t">>}
ApiBodies   == {<<"a", "b">>, <<"c">>}

Api == conn[HandledFd].h

\* the response becomes r; a serialized buffer, if any, has been freed
ApiSet(r) ==
    /\ conn' = [conn EXCEPT ![HandledFd].h.response = r,
                            ![HandledFd].h.serialized = NoBytes,
                            ![HandledFd].h.serialized_length = 0]
    /\ UNCHANGED <<qvars, tvars, poolvars, mainvars, next_fd, logvars>>

ApiInit ==
    /\ pc[Caller] = "api"
    /\ \E status_code \in ApiStatuses, strdup_ok \in BOOLEAN :
          ApiSet(HttpResponseInit(Api.response, status_code, strdup_ok).response)

ApiCreateError ==
    /\ pc[Caller] = "api"
    /\ \E status_code \in ApiStatuses, fail_at \in AllocFailures :
          ApiSet(HttpResponseCreateError(Api.response, status_code, "oops",
                                         fail_at).response)

ApiAddHeader ==
    /\ pc[Caller] = "api"
    /\ Api.response.status_message # NULL
    /\ Len(Api.response.headers) < MaxHeaders
    /\ \E header \in ApiHeaders, alloc_ok \in BOOLEAN :
          ApiSet(HttpResponseAddHeader(Api.response, header[1], header[2],
                                       alloc_ok).response)

ApiSetBody ==
    /\ pc[Caller] = "api"
    /\ Api.response.status_message # NULL
    /\ \E body \in ApiBodies, malloc_ok \in BOOLEAN :
          \E length \in 0..Len(body) :
             ApiSet(HttpResponseSetBody(Api.response, body, length,
                                        malloc_ok).response)

\* http_response_serialize; with malloc failing it returns NULL
ApiSerialize ==
    /\ pc[Caller] = "api"
    /\ \E malloc_ok \in BOOLEAN, reason \in PrintfString(Api.response.status_message) :
          LET bytes == HttpResponseSerialize(Api.response, reason, "now")
          IN  IF ~malloc_ok
              THEN /\ conn' = [conn EXCEPT ![HandledFd].h.serialized = NoBytes,
                                           ![HandledFd].h.serialized_length = 0]
                   /\ pc' = pc
              ELSE IF reason = "fault"
              THEN /\ pc' = [pc EXCEPT ![Caller] = "fault"]
                   /\ conn' = conn
              ELSE /\ conn' = [conn EXCEPT ![HandledFd].h.serialized = bytes,
                                           ![HandledFd].h.serialized_length = Len(bytes)]
                   /\ pc' = pc
    /\ UNCHANGED <<qvars, fdv, ret, waited, poolvars, mainvars, next_fd, logvars>>

InitS ==
    /\ q_list = <<>>
    /\ q_count = 0
    /\ q_max = 0
    /\ q_shutdown = FALSE
    /\ q_waiting = {}
    /\ pc = [t \in Threads |-> IF t = Caller THEN "api"
                              ELSE IF t \in Workers THEN "unstarted" ELSE "off"]
    /\ fdv = [t \in Threads |-> NoFd]
    /\ ret = [t \in Threads |-> 0]
    /\ waited = [t \in Threads |-> FALSE]
    /\ pool_shutdown = FALSE
    /\ synced = [w \in Workers |-> FALSE]
    /\ threads = [w \in Workers |-> FALSE]
    /\ joins = NoJoins
    /\ g_running = 1
    /\ pipe_bytes = 0
    /\ sig_pc = "none"
    /\ signals = 0
    /\ next_fd = 1
    /\ conn = [fd \in Fds |-> [NewConn EXCEPT !.h = NoHandle]]
    /\ enq_log = <<>>
    /\ deq_log = <<>>
    /\ dropped = <<>>
    /\ at_shutdown = [set |-> FALSE, list |-> <<>>, deqs |-> 0]

NextS ==
    \/ ApiInit
    \/ ApiCreateError
    \/ ApiAddHeader
    \/ ApiSetBody
    \/ ApiSerialize

SpecS == InitS /\ [][NextS]_vars

\* ------------------------------------------------------------------- C29
\* the bytes s are the serialization of response r: status line, Server,
\* Date, Content-Length, the caller's headers in insertion order, the blank
\* line, and as many body bytes as Content-Length says, equal to the body
WellShaped(s, r) ==
    LET k == Len(r.headers)
        n == s[4][2]
    IN  /\ Len(s) >= 5 + k
        /\ s[1][1] = "HTTP/1.1"
        /\ s[1][2] = r.status_code
        /\ r.status_message # NULL => s[1][3] = r.status_message
        /\ s[2][1] = "Server"
        /\ s[3][1] = "Date"
        /\ s[4][1] = "Content-Length"
        /\ SubSeq(s, 5, 4 + k) = r.headers
        /\ s[5 + k] = <<"">>
        /\ Len(s) = 5 + k + n
        /\ n = Len(r.body)
        /\ \A i \in 1..n : s[5 + k + i] = <<r.body[i]>>

\* C29: every buffer http_response_serialize returns consists of the status
\* line, Server, Date, a Content-Length equal to the number of body bytes
\* behind the blank line, the caller's headers in insertion order, the blank
\* line and the body as it was set.
C29_SerializedShape ==
    Api.serialized # NoBytes => WellShaped(Api.serialized, Api.response)

C29_Witness ==
    /\ Api.serialized # NoBytes
    /\ Len(Api.response.headers) = 2
    /\ Api.response.headers[1] # Api.response.headers[2]
    /\ Api.response.body = <<"a", "b">>
    /\ WellShaped(Api.serialized, Api.response)


\* ------------------------------------------------------------------- C31
\* C31: a recv or send that fails with EINTR or EAGAIN/EWOULDBLOCK is retried
\* and does not abort the connection: connection_handle never returns -1 with
\* such a transient error as the last thing the socket reported, the response
\* left unwritten or cut short.
C31_TransientRetried ==
    \A fd \in Fds :
        LET c == conn[fd]
        IN  (c.finished /\ c.h.errno \in TransientErrors) =>
               /\ c.result = 0
               /\ c.h.serialized # NoBytes
               /\ c.h.wire = c.h.serialized

\* ------------------------------------------- two connections, two workers
\* Two workers have each taken a connection off the queue and call
\* connection_handle on it, one after the other or interleaved.  Each client
\* sends a payment request with an idempotency key: two keys, the request
\* with the second one announcing a body.
Handlers == {"w1", "w2"}
HandlerFd(w) == IF w = "w1" THEN 1 ELSE 2

KeyedPosts ==
    { [terminated |-> TRUE, line |-> <<"POST", PaymentUri, "HTTP/1.1">>,
       headers |-> <<KeyLine>>],
      [terminated |-> TRUE, line |-> <<"POST", PaymentUri, "HTTP/1.1">>,
       headers |-> <<HeaderLine("x-idempotency-key", <<"k", "2">>),
                     LengthLine(Decimal(5))>>] }

InitI ==
    /\ q_list = <<>>
    /\ q_count = 0
    /\ q_max = 0
    /\ q_shutdown = FALSE
    /\ q_waiting = {}
    /\ pc = [t \in Threads |-> IF t \in Handlers THEN "handle"
                              ELSE IF t = Main THEN "loop"
                              ELSE IF t \in Workers THEN "unstarted" ELSE "off"]
    /\ fdv = [t \in Threads |-> IF t \in Handlers THEN HandlerFd(t) ELSE NoFd]
    /\ ret = [t \in Threads |-> 0]
    /\ waited = [t \in Threads |-> FALSE]
    /\ pool_shutdown = FALSE
    /\ synced = [w \in Workers |-> FALSE]
    /\ threads = [w \in Workers |-> w \in Handlers]
    /\ joins = NoJoins
    /\ g_running = 1
    /\ pipe_bytes = 0
    /\ sig_pc = "none"
    /\ signals = 0
    /\ next_fd = 3
    /\ conn = [fd \in Fds |-> IF fd \in {HandlerFd(w) : w \in Handlers}
                              THEN [NewConn EXCEPT !.state = "open",
                                                   !.opener = Main,
                                                   !.h = NoHandle]
                              ELSE [NewConn EXCEPT !.h = NoHandle]]
    /\ enq_log = <<1, 2>>
    /\ deq_log = <<1, 2>>
    /\ dropped = <<>>
    /\ at_shutdown = [set |-> FALSE, list |-> <<>>, deqs |-> 0]

\* a step of worker w in which no allocation fails and the socket reports no
\* error (what connection_handle does with those is followed in SpecH)
CalmStep(w, step) ==
    /\ step
    /\ ~conn'[fdv[w]].h.alloc_failed
    /\ conn'[fdv[w]].h.errno = "none"

NextI ==
    \E w \in Handlers :
        \/ CalmStep(w, Step1ReadFrom(w, KeyedPosts))
        \/ CalmStep(w, Step2Framing(w))
        \/ CalmStep(w, Step3RequestLine(w))
        \/ CalmStep(w, Step4Headers(w))
        \/ CalmStep(w, Step5Body(w))
        \/ CalmStep(w, Step6KeyCheck(w))
        \/ CalmStep(w, Step7Build(w))
        \/ CalmStep(w, Step8Serialize(w))
        \/ CalmStep(w, Step8Write(w))
        \/ CalmStep(w, Step8SendDone(w))
        \/ CalmStep(w, Step9Cleanup(w))
        \/ CalmStep(w, WorkerClose(w))

SpecI == InitI /\ [][NextI]_vars

\* ------------------------------------------------------------------- C33
\* the values of the X-Idempotency-Key lines among the bytes received
KeysSent(buffer) ==
    { buffer.headers[i].value :
        i \in { j \in DOMAIN buffer.headers :
                  /\ buffer.headers[j].colon
                  /\ StrCaseEq(buffer.headers[j].name, "X-Idempotency-Key") } }

\* the run answered its payment request with the 200 of Step 7
PaymentAnswer(c) ==
    /\ c.resp # NoResp
    /\ c.resp.status = HTTP_OK
    /\ Len(c.resp.body) = 4
    /\ c.resp.body[2] = "Payment processed"

\* C33: two requests with distinct idempotency keys, handled one after the
\* other or at the same time by different workers, each execute Step 7 (a
\* request whose headers were parsed runs it exactly once), and the 200
\* response to one carries its own key and its own body size, never the key
\* of the other.
C33_Isolation ==
    \A f1, f2 \in Fds :
        LET c == conn[f1]
            d == conn[f2]
        IN  (/\ f1 # f2
             /\ HasRead(c) /\ HasRead(d)
             /\ KeysSent(c.h.buffer) \cap KeysSent(d.h.buffer) = {})
            => /\ (c.finished /\ c.h.parsed) => c.handler_runs = 1
               /\ PaymentAnswer(c) =>
                     /\ c.resp.body[3] \in KeysSent(c.h.buffer)
                     /\ c.resp.body[3] \notin KeysSent(d.h.buffer)
                     /\ c.resp.body[4] =
                           ParseHeaders(NewRequest, c.h.buffer.headers,
                                        TRUE).request.content_length

\* both requests, with different keys, were handled at the same time and
\* both were answered in full with their 200
C33_Witness ==
    /\ conn[1].handler_runs = 1 /\ conn[2].handler_runs = 1
    /\ conn[1].done_before = {} /\ conn[2].done_before = {}
    /\ KeysSent(conn[1].h.buffer) \cap KeysSent(conn[2].h.buffer) = {}
    /\ \A fd \in {1, 2} :
          /\ conn[fd].state = "closed" /\ conn[fd].result = 0
          /\ PaymentAnswer(conn[fd])
          /\ conn[fd].h.wire = conn[fd].h.serialized

\* --------------------------------------------- Content-Length in the pipeline
\* The pipeline for payment requests with a key and a Content-Length line:
\* values strtoul reads in full, in part, or not at all.
LengthValues ==
    { Decimal(5), Decimal(2 * MAX_REQUEST_BODY_SIZE),
      <<>>, <<"a", "b">>, <<"1", "2", "a">>, <<"-">>, <<"-", "0">>, <<"-", "5">> }

LengthBuffers ==
    { [terminated |-> TRUE, line |-> <<"POST", PaymentUri, "HTTP/1.1">>,
       headers |-> <<KeyLine, LengthLine(v)>>] : v \in LengthValues }

NextC ==
    \/ Step1ReadFrom(Handler, LengthBuffers)
    \/ Step2Framing(Handler)
    \/ Step3RequestLine(Handler)
    \/ Step4Headers(Handler)
    \/ Step5Body(Handler)
    \/ Step6KeyCheck(Handler)
    \/ Step7Build(Handler)
    \/ Step8Serialize(Handler)
    \/ Step8Write(Handler)
    \/ Step8SendDone(Handler)
    \/ Step9Cleanup(Handler)
    \/ WorkerClose(Handler)

SpecC == InitH /\ [][NextC]_vars

\* ------------------------------------------------------------------- C34
\* the text is a non-negative decimal number: digits, at least one
IsDecimalNumber(chars) ==
    chars # <<>> /\ \A i \in DOMAIN chars : chars[i] \in DOMAIN DigitValue

\* the bytes received carry a Content-Length line and the value of each one
\* is not a non-negative decimal number
InvalidLengthSent(buffer) ==
    LET at == { i \in DOMAIN buffer.headers :
                  /\ buffer.headers[i].colon
                  /\ StrCaseEq(buffer.headers[i].name, "Content-Length") }
    IN  /\ at # {}
        /\ \A i \in at : ~IsDecimalNumber(buffer.headers[i].value)

\* C34: for a Content-Length value that is not a non-negative decimal number
\* (trailing non-digits, a leading minus sign, empty) parse_headers leaves
\* content_length 0: Step 5 sees 0, no body is read and the request is not
\* answered with 413.
C34_InvalidLengthIsZero ==
    \A fd \in Fds :
        LET c == conn[fd]
        IN  (HasRead(c) /\ InvalidLengthSent(c.h.buffer)) =>
               /\ (c.h.headers_rc = 0 /\ ~c.finished) => c.h.request.content_length = 0
               /\ c.h.body_calls = 0
               /\ c.resp # NoResp => c.resp.status # HTTP_PAYLOAD_TOO_LARGE

\* ------------------------------------------------ parse_headers, called directly
\* A caller hands parse_headers header sections of its own making: a run of
\* Host lines, short or up to one more than the array holds, followed by
\* lines at the limits of the name and value sizes.
HostRuns == {0, 1, 2, MAX_HEADERS - 2, MAX_HEADERS - 1, MAX_HEADERS, MAX_HEADERS + 1,
             MAX_HEADERS + 2}
Hosts(n) == [i \in 1..n |-> HostLine]
Text(n) == [i \in 1..n |-> "v"]
Name255 == "nnnnnnnnnnnnnnnnnnnnnnnnnnnnnnnnnnnnnnnnnnnnnnnnnnnnnnnnnnnnnnnnnnnnnnnnnnnnnnnnnnnnnnnnnnnnnnnnnnnnnnnnnnnnnnnnnnnnnnnnnnnnnnnnnnnnnnnnnnnnnnnnnnnnnnnnnnnnnnnnnnnnnnnnnnnnnnnnnnnnnnnnnnnnnnnnnnnnnnnnnnnnnnnnnnnnnnnnnnnnnnnnnnnnnnnnnnnnnnnnnnnnnnnnnnnnnnn"
Name256 == "nnnnnnnnnnnnnnnnnnnnnnnnnnnnnnnnnnnnnnnnnnnnnnnnnnnnnnnnnnnnnnnnnnnnnnnnnnnnnnnnnnnnnnnnnnnnnnnnnnnnnnnnnnnnnnnnnnnnnnnnnnnnnnnnnnnnnnnnnnnnnnnnnnnnnnnnnnnnnnnnnnnnnnnnnnnnnnnnnnnnnnnnnnnnnnnnnnnnnnnnnnnnnnnnnnnnnnnnnnnnnnnnnnnnnnnnnnnnnnnnnnnnnnnnnnnnnnnn"

SectionTails ==
    { <<>>,
      <<NoColonLine>>,
      <<HeaderLine("", <<"v">>)>>,
      <<HeaderLine("", <<"v">>), KeyLine>>,
      <<HeaderLine(Name255, <<"v">>)>>,
      <<HeaderLine(Name256, <<"v">>)>>,
      <<HeaderLine("X-Trace", Text(MAX_HEADER_VALUE_LENGTH - 1))>>,
      <<HeaderLine("X-Trace", Text(MAX_HEADER_VALUE_LENGTH))>>,
      <<HeaderLine("X-Trace", Text(MAX_HEADER_VALUE_LENGTH + 9))>> }

HeaderInputs == { Hosts(n) \o tail : n \in HostRuns, tail \in SectionTails }

\* parse_headers(&request, header_section)
ApiParseHeaders ==
    /\ pc[Caller] = "api"
    /\ \E section \in HeaderInputs, strdup_ok \in BOOLEAN :
          LET p == ParseHeaders(Api.request, section, strdup_ok)
          IN  conn' = [conn EXCEPT ![HandledFd].h.buffer.headers = section,
                                   ![HandledFd].h.request = p.request,
                                   ![HandledFd].h.headers_rc = p.rc,
                                   ![HandledFd].h.alloc_failed = ~strdup_ok]
    /\ UNCHANGED <<qvars, tvars, poolvars, mainvars, next_fd, logvars>>

NextHdr == ApiParseHeaders

SpecHdr == InitS /\ [][NextHdr]_vars

\* ------------------------------------------------------------------- C35
\* the lines of the section parse_headers takes for headers: a colon and a
\* name that is not empty
IsHeaderLine(line) == line.colon /\ line.name # ""

\* C35: parse_headers never holds more than MAX_HEADERS headers; the parse
\* fails as a whole when the section has one more header than that or a name
\* of MAX_HEADER_NAME_LENGTH characters or more, and only then (or when the
\* section cannot be copied); a line with an empty name is never stored; a
\* value of MAX_HEADER_VALUE_LENGTH characters or more is stored cut to
\* MAX_HEADER_VALUE_LENGTH - 1 characters, every other header as it is.
C35_HeaderBounds ==
    LET r       == Api.request
        section == SelectSeq(Api.buffer.headers, IsHeaderLine)
        toolong == \E i \in DOMAIN section :
                      Len(section[i].name) >= MAX_HEADER_NAME_LENGTH
    IN  /\ r.header_count \in 0..MAX_HEADERS
        /\ Len(r.headers) = r.header_count
        /\ \A i \in DOMAIN r.headers : r.headers[i].name # ""
        /\ (Api.headers_rc # 1 /\ ~Api.alloc_failed) =>
              /\ Api.headers_rc = -1 <=> (Len(section) > MAX_HEADERS \/ toolong)
              /\ Api.headers_rc = 0 =>
                    /\ r.header_count = Len(section)
                    /\ \A i \in DOMAIN section :
                          /\ r.headers[i].name = section[i].name
                          /\ r.headers[i].value =
                                IF Len(section[i].value) >= MAX_HEADER_VALUE_LENGTH
                                THEN SubSeq(section[i].value, 1,
                                            MAX_HEADER_VALUE_LENGTH - 1)
                                ELSE section[i].value

\* parse_headers has filled the array to its last place, the last header with
\* a value it had to cut
C35_Witness ==
    /\ Api.headers_rc = 0
    /\ Api.request.header_count = MAX_HEADERS
    /\ Len(Api.request.headers[MAX_HEADERS].value) = MAX_HEADER_VALUE_LENGTH - 1
    /\ Len(Api.buffer.headers[MAX_HEADERS].value) > MAX_HEADER_VALUE_LENGTH

\* ---------------------------------------------- the queue, node by node
\* The list of task_queue_t with its nodes and pointers: q_list is
\* [head, tail, nodes], a node is [used, client_fd, next], NullNode is the
\* NULL pointer.  Every call is followed from pthread_mutex_lock to
\* pthread_mutex_unlock in one step (the mutex makes it one); a call that has
\* to wait in pthread_cond_wait is taken up when it can go on (SpecQ follows
\* the waits).  The caller makes any sequence of calls.
MaxNodes == 3
NodeIds  == 1..MaxNodes
NullNode == 0

FreeNode == [used |-> FALSE, client_fd |-> NoFd, next |-> NullNode]

\* task_queue_init: head = NULL, tail = NULL
NoNodes == [head |-> NullNode, tail |-> NullNode,
            nodes |-> [n \in NodeIds |-> FreeNode]]

\* task->client_fd = client_fd; task->next = NULL; then the link at the tail
LinkTail(q, task, client_fd) ==
    LET q1 == [q EXCEPT !.nodes[task] = [used |-> TRUE, client_fd |-> client_fd,
                                         next |-> NullNode]]
    IN  IF q1.tail = NullNode
        THEN [q1 EXCEPT !.head = task, !.tail = task]
        ELSE [q1 EXCEPT !.nodes[q1.tail].next = task, !.tail = task]

\* a dequeue that leaves tail as it is when the list becomes empty
UnlinkHeadKeepTail(q) ==
    [q EXCEPT !.head = q.nodes[q.head].next, !.nodes[q.head] = FreeNode]
\* task = head; head = task->next; if (head == NULL) tail = NULL; free(task)
UnlinkHead(q) ==
    LET task == q.head
        q1   == [q EXCEPT !.head = q.nodes[task].next]
        q2   == IF q1.head = NullNode THEN [q1 EXCEPT !.tail = NullNode] ELSE q1
    IN  [q2 EXCEPT !.nodes[task] = FreeNode]

ApiReturns(label, value) ==
    /\ pc' = [pc EXCEPT ![Caller] = label]
    /\ ret' = [ret EXCEPT ![Caller] = value]
    /\ UNCHANGED <<q_max, q_waiting, fdv, waited, poolvars, mainvars, next_fd,
                   conn, logvars>>

\* task_queue_enqueue: malloc returns NULL or a node not in use
NodeEnqueue ==
    /\ pc[Caller] # "off"
    /\ \E client_fd \in Fds,
          task \in {NullNode} \cup {n \in NodeIds : ~q_list.nodes[n].used} :
          IF task = NullNode \/ EnqueueSeesShutdown(q_shutdown)
          THEN /\ ApiReturns("enq_ret", -1)
               /\ UNCHANGED <<q_list, q_count, q_shutdown>>
          ELSE /\ ~EnqueueMustWait(q_max, q_count)
               /\ q_list' = LinkTail(q_list, task, client_fd)
               /\ q_count' = q_count + 1
               /\ ApiReturns("enq_ret", 0)
               /\ UNCHANGED q_shutdown

\* task_queue_dequeue
NodeDequeue ==
    /\ pc[Caller] # "off"
    /\ ~DequeueMustWait(q_count, q_shutdown)
    /\ IF DequeueReportsShutdown(q_shutdown, q_count)
       THEN /\ ApiReturns("deq_ret", -1)
            /\ UNCHANGED <<q_list, q_count, q_shutdown>>
       ELSE /\ q_list' = UnlinkHead(q_list)
            /\ q_count' = q_count - 1
            /\ ApiReturns("deq_ret", q_list.nodes[q_list.head].client_fd)
            /\ UNCHANGED q_shutdown

\* task_queue_size
NodeSize ==
    /\ pc[Caller] # "off"
    /\ ApiReturns("size_ret", q_count)
    /\ UNCHANGED <<q_list, q_count, q_shutdown>>

\* task_queue_shutdown
NodeShutdown ==
    /\ pc[Caller] # "off"
    /\ q_shutdown' = TRUE
    /\ ApiReturns("shutdown_ret", 0)
    /\ UNCHANGED <<q_list, q_count>>

InitN ==
    /\ q_list = NoNodes
    /\ q_count = 0
    /\ q_max \in 0..MaxQueueSize
    /\ q_shutdown = FALSE
    /\ q_waiting = {}
    /\ pc = [t \in Threads |-> IF t = Caller THEN "api"
                              ELSE IF t \in Workers THEN "unstarted" ELSE "off"]
    /\ fdv = [t \in Threads |-> NoFd]
    /\ ret = [t \in Threads |-> 0]
    /\ waited = [t \in Threads |-> FALSE]
    /\ pool_shutdown = FALSE
    /\ synced = [w \in Workers |-> FALSE]
    /\ threads = [w \in Workers |-> FALSE]
    /\ joins = NoJoins
    /\ g_running = 1
    /\ pipe_bytes = 0
    /\ sig_pc = "none"
    /\ signals = 0
    /\ next_fd = 1
    /\ conn = [fd \in Fds |-> NewConn]
    /\ enq_log = <<>>
    /\ deq_log = <<>>
    /\ dropped = <<>>
    /\ at_shutdown = [set |-> FALSE, list |-> <<>>, deqs |-> 0]

NextN ==
    \/ NodeEnqueue
    \/ NodeDequeue
    \/ NodeSize
    \/ NodeShutdown

SpecN == InitN /\ [][NextN]_vars

\* ------------------------------------------------------------------- C36
\* the nodes reached from node by following next, at most fuel of them
RECURSIVE Chain(_, _, _)
Chain(q, node, fuel) ==
    IF node = NullNode \/ fuel = 0 THEN <<>>
    ELSE <<node>> \o Chain(q, q.nodes[node].next, fuel - 1)

\* C36: whenever the mutex is free, count is the number of task nodes reached
\* from head (all of them allocated, none reached twice) and is not negative;
\* head is NULL exactly when tail is NULL exactly when count is 0; tail is the
\* last node reached from head; and task_queue_size returns that count.
C36_QueueStructure ==
    LET reached == Chain(q_list, q_list.head, MaxNodes + 1)
    IN  /\ q_count >= 0
        /\ q_count = Len(reached)
        /\ \A i \in DOMAIN reached : q_list.nodes[reached[i]].used
        /\ \A i, j \in DOMAIN reached : reached[i] = reached[j] => i = j
        /\ (q_list.head = NullNode) <=> (q_list.tail = NullNode)
        /\ (q_list.tail = NullNode) <=> (q_count = 0)
        /\ q_count > 0 => q_list.tail = reached[Len(reached)]
        /\ pc[Caller] = "size_ret" => ret[Caller] = Len(reached)

\* the list has been empty, filled and emptied again, and holds two nodes
\* after that, of which task_queue_size has just told the count
C36_Witness ==
    /\ pc[Caller] = "size_ret"
    /\ ret[Caller] = 2
    /\ q_list.head # q_list.tail
    /\ q_list.nodes[q_list.head].next = q_list.tail
    /\ \E n \in NodeIds : ~q_list.nodes[n].used

\* ------------------------------------------------------------------- C37
\* a step of main inside its accept loop that waits for nothing but main
\* itself or a readable shutdown pipe
MainLoopStep ==
    \/ MainLoop
    \/ AcceptShutdown
    \/ AcceptErrorCheck
    \/ EnqueueStep(Main)
    \/ EnqueueNoMemory(Main)
    \/ EnqueueFailedClose(Main)
    \/ EnqueueDone(Main)

\* main runs, select() returns once the shutdown pipe is readable, and a
\* signal handler that has started performs its write
FairSpecM ==
    /\ SpecL
    /\ WF_vars(MainLoopStep)
    /\ WF_vars(ListenerShutdown)

AcceptAgain ==
    /\ pc[Main] = "sd_flag"
    /\ MainGoto("accept")
    /\ UNCHANGED <<qvars, fdv, ret, waited, poolvars, mainvars, next_fd, conn, logvars>>

NextA ==
    \/ MainLoop
    \/ AcceptShutdown
    \/ AcceptConnection
    \/ AcceptFails
    \/ AcceptErrorCheck
    \/ EnqueueStep(Main)
    \/ EnqueueNoMemory(Main)
    \/ EnqueueFailedClose(Main)
    \/ EnqueueDone(Main)
    \/ AcceptAgain
    \/ SignalArrives
    \/ ListenerShutdownCall
    \/ ListenerShutdown

SpecA == InitL /\ [][NextA]_vars

\* ------------------------------------------------------------------- C38
\* a listener_shutdown call has returned
ShutdownRequested == signals > 0 /\ (signals > 1 \/ sig_pc = "none")

\* C38: a shutdown request is sticky for accept.  Once listener_shutdown has
\* been called, every listener_accept call finds the shutdown pipe readable,
\* so that it returns -2 and neither waits nor accepts a connection, also
\* when an earlier call has already returned -2.
C38_StickyShutdown ==
    (ShutdownRequested /\ pc[Main] = "accept") => pipe_bytes > 0

\* ------------------------------------------------------------------- C39
\* The status the checks of Steps 2-6 give the bytes received, taken in the
\* order terminator, request line, headers, size, body, key: the first check
\* that fails decides; 0 when none fails.  Whether the copy of the header
\* section could be allocated and whether the body could be read is known
\* from the locals of the run: headers_rc, body_calls and parsed.
FirstFailure(c) ==
    LET buffer == c.h.buffer
        line   == ParseRequestLine(NewRequest, buffer.line)
        hdrs   == ParseHeaders(line.request, buffer.headers, TRUE)
        length == hdrs.request.content_length
    IN  IF ~buffer.terminated THEN HTTP_BAD_REQUEST
        ELSE IF buffer.headers = <<>> THEN HTTP_BAD_REQUEST
        ELSE IF line.rc # 0 THEN HTTP_BAD_REQUEST
        ELSE IF hdrs.rc # 0 \/ c.h.headers_rc = -1 THEN HTTP_BAD_REQUEST
        ELSE IF length > MAX_REQUEST_BODY_SIZE THEN HTTP_PAYLOAD_TOO_LARGE
        ELSE IF length > 0 /\ c.h.body_calls > 0 /\ ~c.h.parsed THEN HTTP_BAD_REQUEST
        ELSE IF hdrs.request.method = HTTP_METHOD_POST
                /\ ~hdrs.request.has_idempotency_key THEN HTTP_UNPROCESSABLE
        ELSE 0

\* C39: the response of a run carries the status of the first check that
\* fails, in the order terminator (400), request line (400), headers (400),
\* Content-Length over the maximum (413), body read (400), POST without key
\* (422), and Step 7 runs only when none fails; an oversized POST without a
\* key gets 413.  One response is written per connection: what is on the
\* socket is a prefix of the one serialized response, and all of it when the
\* run ends without a failed allocation or write.
C39_ErrorPrecedence ==
    \A fd \in Fds :
        LET c == conn[fd]
        IN  (HasRead(c) /\ c.resp # NoResp) =>
               /\ FirstFailure(c) # 0 =>
                     /\ c.resp.status = FirstFailure(c)
                     /\ c.handler_runs = 0
               /\ FirstFailure(c) = 0 =>
                     /\ c.handler_runs = 1
                     /\ c.resp.status \in {HTTP_OK, HTTP_INTERNAL_ERROR}
               /\ c.h.serialized # NoBytes =>
                     /\ c.h.serialized[1][2] = c.resp.status
                     /\ IsPrefix(c.h.wire, c.h.serialized)
               /\ c.h.serialized = NoBytes => c.h.wire = <<>>
               /\ (c.finished /\ ~c.h.alloc_failed /\ ~WriteFailed(c))
                     => (c.h.serialized # NoBytes /\ c.h.wire = c.h.serialized)

\* a POST without a key that announces more than the maximum has been
\* answered with 413, in full, and the connection is closed
C39_Witness ==
    LET c == conn[HandledFd]
    IN  /\ c.state = "closed"
        /\ c.h.buffer.line = <<"POST", PaymentUri, "HTTP/1.1">>
        /\ ~CarriesKey(c.h.buffer)
        /\ Announces(c.h.buffer, 2 * MAX_REQUEST_BODY_SIZE)
        /\ c.resp.status = HTTP_PAYLOAD_TOO_LARGE
        /\ c.handler_runs = 0
        /\ c.h.wire = c.h.serialized
        /\ c.h.serialized # NoBytes


\* ------------------------------------------------------------------- C40
\* the request passed Steps 2-5: terminator, request line, headers and body
PassedParsing(c) ==
    HasRead(c) /\ FirstFailure(c) \in {0, HTTP_UNPROCESSABLE}

\* the received request line names POST
SentAsPost(buffer) ==
    buffer.line # <<>> /\ buffer.line[1] = "POST"

\* C40: a successfully parsed request is answered with 422 if and only if
\* its method is POST and it carries no X-Idempotency-Key header in any
\* letter case; a request without the key and with any other method reaches
\* Step 7 and is answered with 200.
C40_KeylessPostOnly422 ==
    \A fd \in Fds :
        LET c == conn[fd]
        IN  (PassedParsing(c) /\ c.resp # NoResp) =>
               /\ (c.resp.status = HTTP_UNPROCESSABLE)
                     <=> (SentAsPost(c.h.buffer) /\ ~CarriesKey(c.h.buffer))
               /\ (~SentAsPost(c.h.buffer) /\ ~CarriesKey(c.h.buffer)) =>
                     /\ c.handler_runs = 1
                     /\ c.resp.status = HTTP_OK

=============================================================================
